---- MODULE Spec2Model ----
(***************************************************************************)
(* Model of langkit's unparser-derivation pass (langkit/unparsers.py):     *)
(* the Unparsers registry (compute / check_nodes_to_rules / finalize), the *)
(* derivation NodeUnparser.from_parser, creates_node, unparser_struct_eq,  *)
(* find_canonical_parser and the combine methods of the unparser classes.  *)
(***************************************************************************)
EXTENDS Integers, Sequences, FiniteSets, TLC

\* Number of grammar rules handed to Unparsers.compute in one session.
MaxComputes == 2

(***************************************************************************)
(* Generic helpers.                                                        *)
(***************************************************************************)
Range(s) == {s[i] : i \in 1..Len(s)}

\* Python's truth value of a str: the empty string is false, any other true.
Truthy(str) == str # ""

(***************************************************************************)
(* Node-type registry (langkit.compiled_types, consumed by the pass).      *)
(***************************************************************************)
\* CompiledTypeMetaclass.astnode_types / context.astnode_types, in order.
astnode_types ==
    <<"Root", "A", "B", "E", "T", "L", "EList", "Q", "QPresent", "QAbsent",
      "Syn", "U">>

Nodes == Range(astnode_types)

abstract(n) == n \in {"Root", "Q"}

synthetic(n) == n = "Syn"

is_token_node(n) == n = "T"

is_list_type(n) == n \in {"L", "EList"}

\* node_type.element_type.list == node_type: the automatically derived
\* root list type of an element type.
is_base_list(n) == n = "EList"

\* len(node.get_parse_fields())
NumFields(n) == CASE n = "A" -> 1 [] n = "B" -> 2 [] OTHER -> 0

\* p._booleanize._alternatives (their .type), and p._booleanize._alt_present
EnumAlternatives(enum) == IF enum = "Q" THEN <<"QPresent", "QAbsent">> ELSE <<>>

AltPresent(enum) == IF enum = "Q" THEN "QPresent" ELSE "-"

(***************************************************************************)
(* Lexer tokens (langkit.lexer): the literal a token kind's matcher        *)
(* matches, "" when the kind has no literal matcher (token.matcher None).  *)
(***************************************************************************)
Matcher(val) ==
    CASE val = "LPar" -> "("
      [] val = "RPar" -> ")"
      [] val = "Comma" -> ","
      [] val = "Semi" -> ";"
      [] OTHER -> ""

Termination == "Termination"

(***************************************************************************)
(* Parser combinators (langkit.parsers).  One record shape for every kind: *)
(*   kind  the combinator class                                            *)
(*   node  the node type built (_Transform, List, Null, Skip) or the enum  *)
(*         node of a booleanized Opt                                       *)
(*   kids  children(), in order                                            *)
(*   val   token kind, text  match_text (_Token)                           *)
(*   idx   extracted index, 1-based (_Extract)                             *)
(*   mode  Opt: "plain", "bool" (_booleanize set), "error" (_is_error)     *)
(*   ref   name of the rule a Defer resolves to                            *)
(*   is_dont_skip_parser  the parser was generated for a DontSkip          *)
(***************************************************************************)
P(kind, node, kids, val, text, idx, mode, ref) ==
    [kind |-> kind, node |-> node, kids |-> kids, val |-> val, text |-> text,
     idx |-> idx, mode |-> mode, ref |-> ref, is_dont_skip_parser |-> FALSE]

Tok(val, text) == P("_Token", "-", <<>>, val, text, 0, "-", "-")

Row(kids) == P("_Row", "-", kids, "-", "", 0, "-", "-")

Transform(node, kids) == P("_Transform", node, <<Row(kids)>>, "-", "", 0, "-", "-")

ListP(node, elem, sep) == P("List", node, <<elem>> \o sep, "-", "", 0, "-", "-")

OptP(mode, enum, sub) == P("Opt", enum, <<sub>>, "-", "", 0, mode, "-")

OrP(kids) == P("Or", "-", kids, "-", "", 0, "-", "-")

Defer(ref) == P("Defer", "-", <<>>, "-", "", 0, "-", ref)

NullP(node) == P("Null", node, <<>>, "-", "", 0, "-", "-")

Extract(kids, idx) == P("_Extract", "-", <<Row(kids)>>, "-", "", idx, "-", "-")

Predicate(sub) == P("Predicate", "-", <<sub>>, "-", "", 0, "-", "-")

DontSkip(sub) == P("DontSkip", "-", <<sub>>, "-", "", 0, "-", "-")

NoBacktrack == P("NoBacktrack", "-", <<>>, "-", "", 0, "-", "-")

Skip(node) == P("Skip", node, <<>>, "-", "", 0, "-", "-")

\* Python's None where a parser is expected (List.sep, node.parser).
NoParser == P("None", "-", <<>>, "-", "", 0, "-", "-")

\* The rule a DontSkip parser generates, flagged is_dont_skip_parser.
DontSkipParser(kids) ==
    [Extract(<<NullP("Root")>> \o kids, 1) EXCEPT !.is_dont_skip_parser = TRUE]

\* Parser.children()
children(p) == p.kids

\* parser.parser of a wrapper (_Transform, _Extract, Opt, Predicate)
Sub(p) == p.kids[1]

\* parser.subparser of a DontSkip
unwrap_dont_skip(p) == IF p.kind = "DontSkip" THEN p.kids[1] ELSE p

\* List.sep
Sep(p) == IF Len(p.kids) = 2 THEN p.kids[2] ELSE NoParser

\* p._booleanize is set
Booleanize(p) == p.kind = "Opt" /\ p.mode = "bool"

\* p._is_error
IsError(p) == p.kind = "Opt" /\ p.mode = "error"

\* The grammar's named rules that Defer parsers resolve to (Defer.parser).
tLPar == Tok("LPar", "")
tRPar == Tok("RPar", "")
tComma == Tok("Comma", "")
tSemi == Tok("Semi", "")
tTerm == Tok(Termination, "")
tIdA == Tok("Ident", "a")
tIdB == Tok("Ident", "b")
tIdComma == Tok("Ident", ",")
tIdBare == Tok("Ident", "")

ResolveDefer(ref) ==
    CASE ref = "e" -> Transform("E", <<tLPar>>)
      [] ref = "x" -> Extract(<<tLPar, Transform("E", <<>>), tRPar>>, 2)
      [] OTHER -> tIdBare

RECURSIVE is_ast_node(_)
\* p.get_type().is_ast_node
is_ast_node(p) ==
    CASE p.kind \in {"_Transform", "List", "Null", "Skip"} -> TRUE
      [] p.kind = "Opt" -> Booleanize(p) \/ is_ast_node(Sub(p))
      [] p.kind = "Or" -> \A i \in 1..Len(p.kids) : is_ast_node(p.kids[i])
      [] p.kind = "Defer" -> is_ast_node(ResolveDefer(p.ref))
      [] p.kind = "_Extract" -> is_ast_node(Sub(p).kids[p.idx])
      [] p.kind \in {"Predicate", "DontSkip"} -> is_ast_node(Sub(p))
      [] OTHER -> FALSE

RECURSIVE get_type(_)
\* p.get_type() of a node-producing parser, as a node type name; an Or has
\* the common (abstract) base type of its branches.
get_type(p) ==
    CASE p.kind = "Or" -> "Root"
      [] p.kind = "Opt" /\ ~Booleanize(p) -> get_type(Sub(p))
      [] p.kind = "Defer" -> get_type(ResolveDefer(p.ref))
      [] p.kind = "_Extract" -> get_type(Sub(p).kids[p.idx])
      [] p.kind \in {"Predicate", "DontSkip"} -> get_type(Sub(p))
      [] OTHER -> p.node

RECURSIVE discard(_)
\* Parser.discard(): the parser yields no value kept in the enclosing row.
discard(p) ==
    CASE p.kind \in {"_Token", "NoBacktrack"} -> TRUE
      [] p.kind = "_Row" -> \A i \in 1..Len(p.kids) : discard(p.kids[i])
      [] p.kind = "Opt" -> ~Booleanize(p) /\ discard(Sub(p))
      [] p.kind = "DontSkip" -> discard(Sub(p))
      [] OTHER -> FALSE

(***************************************************************************)
(* Diagnostics (langkit.diagnostics).  check_source_language(predicate,    *)
(* message) raises the fatal diagnostic `message` unless `predicate` is    *)
(* true; the result is "" when nothing is raised.                          *)
(***************************************************************************)
NoErr == ""

check_source_language(predicate, message) == IF predicate THEN NoErr ELSE message

\* Exceptions that are not user diagnostics.
AssertionError == "AssertionError"
NotImplementedError == "NotImplementedError"
IndexError == "IndexError"

\* A fatal user diagnostic (DiagnosticError), as opposed to a Python exception.
Fatal(e) == e \notin {NoErr, AssertionError, NotImplementedError, IndexError}

(***************************************************************************)
(* TokenUnparser and TokenSequenceUnparser.                                *)
(***************************************************************************)
\* Python's None where a TokenUnparser is expected (ListNodeUnparser.separator)
NoneTok == [token |-> "None", match_text |-> ""]

\* TokenUnparser.__init__: the assertion, then the two attributes.
TokenUnparser(token, match_text) ==
    [err |-> IF (Matcher(token) = "") = Truthy(match_text)
             THEN NoErr ELSE AssertionError,
     tok |-> [token |-> token, match_text |-> match_text]]

\* TokenUnparser.from_parser: the unparser of a _Token parser, None for None.
\* The cache token_unparsers is keyed by (token, match_text), the value itself.
TokenUnparser_from_parser(parser) ==
    IF parser = NoParser THEN [err |-> NoErr, tok |-> NoneTok]
    ELSE IF parser.kind # "_Token" THEN [err |-> AssertionError, tok |-> NoneTok]
    ELSE TokenUnparser(parser.val, parser.text)

\* TokenUnparser._dump
TokenUnparser_dumps(t) ==
    IF Truthy(t.match_text) THEN t.match_text ELSE Matcher(t.token)

\* TokenUnparser.equivalent
equivalent(token1, token2) ==
    IF token1 = NoneTok \/ token2 = NoneTok THEN token1 = token2
    ELSE TokenUnparser_dumps(token1) = TokenUnparser_dumps(token2)

\* TokenUnparser.dump_or_none
dump_or_none(token) ==
    IF token = NoneTok THEN "<none>" ELSE TokenUnparser_dumps(token)

\* TokenSequenceUnparser.check_equivalence: "" or the diagnostic raised, whose
\* label starts with "Inconsistent {sequence_name}:".
check_equivalence(self, sequence_name, other) ==
    check_source_language(
        Len(self) = Len(other)
        /\ \A i \in 1..Len(self) : equivalent(self[i], other[i]),
        "Inconsistent " \o sequence_name)

(***************************************************************************)
(* FieldUnparser and the NodeUnparser variants.                            *)
(***************************************************************************)
\* field.qualname of the parse field of `node` at index `field`.
qualname(node, field) == node \o ".f" \o ToString(field)

\* FieldUnparser.__init__; field is the index of the parse field.
FieldUnparser(node, field) ==
    [node |-> node, field |-> field, always_absent |-> TRUE,
     pre_tokens |-> <<>>, post_tokens |-> <<>>]

\* RegularNodeUnparser.__init__ with one inter_tokens sequence per field.
RegularNodeUnparser_inter_per_field(node) ==
    [variant |-> "Regular", node |-> node, pre_tokens |-> <<>>,
     field_unparsers |-> [i \in 1..NumFields(node) |->
                             [node |-> node, field |-> i,
                              always_absent |-> TRUE,
                              pre_tokens |-> <<>>, post_tokens |-> <<>>]],
     inter_tokens |-> [i \in 1..NumFields(node) |-> <<>>],
     post_tokens |-> <<>>, separator |-> NoneTok]


\* RegularNodeUnparser.__init__
RegularNodeUnparser(node) ==
    [variant |-> "Regular", node |-> node, pre_tokens |-> <<>>,
     field_unparsers |-> [i \in 1..NumFields(node) |-> FieldUnparser(node, i)],
     inter_tokens |-> [i \in 1..(NumFields(node) - 1) |-> <<>>],
     post_tokens |-> <<>>, separator |-> NoneTok]

\* ListNodeUnparser.__init__
ListNodeUnparser(node, separator) ==
    [variant |-> "List", node |-> node, pre_tokens |-> <<>>,
     field_unparsers |-> <<>>, inter_tokens |-> <<>>, post_tokens |-> <<>>,
     separator |-> separator]

\* TokenNodeUnparser.__init__
TokenNodeUnparser(node) ==
    [variant |-> "TokenNode", node |-> node, pre_tokens |-> <<>>,
     field_unparsers |-> <<>>, inter_tokens |-> <<>>, post_tokens |-> <<>>,
     separator |-> NoneTok]

\* NullNodeUnparser.__init__
NullNodeUnparser(node) ==
    [variant |-> "Null", node |-> node, pre_tokens |-> <<>>,
     field_unparsers |-> <<>>, inter_tokens |-> <<>>, post_tokens |-> <<>>,
     separator |-> NoneTok]

\* Python's None where a NodeUnparser is expected (node.unparser unset).
NoUnparser ==
    [variant |-> "None", node |-> "-", pre_tokens |-> <<>>,
     field_unparsers |-> <<>>, inter_tokens |-> <<>>, post_tokens |-> <<>>,
     separator |-> NoneTok]

(***************************************************************************)
(* Derivation: NodeUnparser.from_parser and its helpers.  Every result is  *)
(* a record whose err field is "" or the exception raised; toks collects   *)
(* the TokenUnparser instances fetched from or added to the cache.  The    *)
(* operators named ..._then continue a method after one of its calls has   *)
(* returned the result r, or propagate the exception r.err it raised.      *)
(***************************************************************************)
RECURSIVE emit_to_token_sequence(_, _)
RECURSIVE emit_all_to_token_sequence(_, _, _)
RECURSIVE emit_to_field_unparser(_, _)
RECURSIVE from_parser(_, _)
RECURSIVE from_parser_row(_, _, _, _, _)
RECURSIVE from_parser_branches(_, _, _)

\* token_sequence.append(TokenUnparser.from_parser(parser)), t being the
\* result of from_parser.
append_token(t, token_sequence) ==
    [err |-> t.err,
     seq |-> IF t.err = NoErr THEN Append(token_sequence, t.tok)
             ELSE token_sequence]

\* NodeUnparser._emit_to_token_sequence: [err, seq]
emit_to_token_sequence(parser0, token_sequence) ==
    LET parser == unwrap_dont_skip(parser0) IN
    CASE parser.kind = "_Row" ->
            emit_all_to_token_sequence(parser.kids, 1, token_sequence)
      [] parser.kind = "_Token" ->
            append_token(TokenUnparser_from_parser(parser), token_sequence)
      [] parser.kind = "Opt" /\ IsError(parser) ->
            emit_to_token_sequence(Sub(parser), token_sequence)
      [] parser.kind \in {"DontSkip", "NoBacktrack"} ->
            [err |-> NoErr, seq |-> token_sequence]
      [] OTHER ->
            [err |-> check_source_language(
                         FALSE, "Static sequence of tokens expected"),
             seq |-> token_sequence]

emit_all_then(r, parsers, i) ==
    IF r.err # NoErr THEN r
    ELSE emit_all_to_token_sequence(parsers, i + 1, r.seq)

\* The loops "for subparser in ...: _emit_to_token_sequence(subparser, seq)",
\* from the i-th parser on; the first exception ends the loop.
emit_all_to_token_sequence(parsers, i, token_sequence) ==
    IF i > Len(parsers) THEN [err |-> NoErr, seq |-> token_sequence]
    ELSE emit_all_then(emit_to_token_sequence(parsers[i], token_sequence),
                       parsers, i)

split_extract_result(pre, node_parser, post) ==
    [err |-> IF pre.err # NoErr THEN pre.err ELSE post.err,
     pre_toks |-> pre.seq,
     node_parser |-> node_parser,
     post_toks |-> post.seq]

\* NodeUnparser._split_extract: [err, pre_toks, node_parser, post_toks]
split_extract(parser) ==
    split_extract_result(
        emit_all_to_token_sequence(
            SubSeq(Sub(parser).kids, 1, parser.idx - 1), 1, <<>>),
        Sub(parser).kids[parser.idx],
        emit_all_to_token_sequence(
            SubSeq(Sub(parser).kids, parser.idx + 1, Len(Sub(parser).kids)),
            1, <<>>))

add_toks(r, toks) == [r EXCEPT !.toks = r.toks \cup toks]

\* _emit_to_field_unparser on an _Extract with the trailing tokens put after
\* those the field already has.
emit_extract_appends_post(s, field_unparser) ==
    IF s.err # NoErr
    THEN [err |-> s.err, fu |-> field_unparser, toks |-> {}]
    ELSE add_toks(
             emit_to_field_unparser(
                 s.node_parser,
                 [field_unparser EXCEPT
                     !.always_absent = FALSE,
                     !.pre_tokens = field_unparser.pre_tokens \o s.pre_toks,
                     !.post_tokens = field_unparser.post_tokens \o s.post_toks]),
             Range(s.pre_toks) \cup Range(s.post_toks))


\* _emit_to_field_unparser on an _Extract, s being _split_extract's result.
emit_extract_then(s, field_unparser) ==
    IF s.err # NoErr
    THEN [err |-> s.err, fu |-> field_unparser, toks |-> {}]
    ELSE add_toks(
             emit_to_field_unparser(
                 s.node_parser,
                 [field_unparser EXCEPT
                     !.always_absent = FALSE,
                     !.pre_tokens = field_unparser.pre_tokens \o s.pre_toks,
                     !.post_tokens = s.post_toks \o field_unparser.post_tokens]),
             Range(s.pre_toks) \cup Range(s.post_toks))

\* _emit_to_field_unparser on an Or, r being the result of the loop.
emit_or_then(r, field_unparser) ==
    [err |-> r.err,
     fu |-> [field_unparser EXCEPT !.always_absent = FALSE],
     toks |-> r.toks]

\* NodeUnparser._emit_to_field_unparser: [err, fu, toks]
emit_to_field_unparser(parser0, field_unparser) ==
    LET parser == unwrap_dont_skip(parser0) IN
    CASE parser.kind \in {"Defer", "List", "Null", "_Transform"} ->
            [err |-> NoErr,
             fu |-> [field_unparser EXCEPT !.always_absent =
                        field_unparser.always_absent /\ parser.kind = "Null"],
             toks |-> {}]
      [] parser.kind = "Opt" ->
            IF ~Booleanize(parser)
            THEN emit_to_field_unparser(
                     Sub(parser),
                     [field_unparser EXCEPT !.always_absent = FALSE])
            ELSE [err |-> NoErr, fu |-> field_unparser, toks |-> {}]
      [] parser.kind = "Or" ->
            emit_or_then(from_parser_branches(parser.kids, 1, {}),
                         field_unparser)
      [] parser.kind = "_Extract" ->
            emit_extract_then(split_extract(parser), field_unparser)
      [] OTHER ->
            [err |-> check_source_language(
                         FALSE, "Unsupported parser for node field"),
             fu |-> field_unparser, toks |-> {}]

branches_then(r, parsers, i, toks) ==
    IF r.err # NoErr THEN [err |-> r.err, toks |-> toks]
    ELSE from_parser_branches(parsers, i + 1, toks \cup r.toks)

\* The loop over the branches of an Or field parser: every branch that is
\* not a Defer is derived for its own type and the result thrown away.
from_parser_branches(parsers, i, toks) ==
    IF i > Len(parsers) THEN [err |-> NoErr, toks |-> toks]
    ELSE IF parsers[i].kind = "Defer"
         THEN from_parser_branches(parsers, i + 1, toks)
         ELSE branches_then(from_parser(get_type(parsers[i]), parsers[i]),
                            parsers, i, toks)

\* The choice of the token sequence without the sequences between fields.
tok_seq_of_pre_or_post(result, next_field) ==
    IF next_field = 0 THEN "pre" ELSE "post"

\* The token sequence of result that a discarded sub-parser is emitted to
\* when next_field fields have been seen: "pre", "inter" or "post".
tok_seq_of(result, next_field) ==
    IF next_field = 0 THEN "pre"
    ELSE IF next_field < Len(result.field_unparsers) THEN "inter"
    ELSE "post"

get_tok_seq(result, next_field) ==
    CASE tok_seq_of(result, next_field) = "pre" -> result.pre_tokens
      [] tok_seq_of(result, next_field) = "inter" ->
            result.inter_tokens[next_field]
      [] OTHER -> result.post_tokens

set_tok_seq(result, next_field, seq) ==
    CASE tok_seq_of(result, next_field) = "pre" ->
            [result EXCEPT !.pre_tokens = seq]
      [] tok_seq_of(result, next_field) = "inter" ->
            [result EXCEPT !.inter_tokens[next_field] = seq]
      [] OTHER -> [result EXCEPT !.post_tokens = seq]

\* from_parser's loop after a discarded sub-parser was emitted (r).
row_tokens_then(r, subparsers, i, result, next_field, toks) ==
    IF r.err # NoErr THEN [err |-> r.err, u |-> result, toks |-> toks]
    ELSE from_parser_row(subparsers, i + 1,
                         set_tok_seq(result, next_field, r.seq),
                         next_field, toks \cup Range(r.seq))

\* from_parser's loop after a field sub-parser was analysed (r).
row_field_then(r, subparsers, i, result, next_field, toks) ==
    IF r.err # NoErr THEN [err |-> r.err, u |-> result, toks |-> toks]
    ELSE from_parser_row(
             subparsers, i + 1,
             [result EXCEPT !.field_unparsers[next_field + 1] = r.fu],
             next_field + 1, toks \cup r.toks)

\* The loop of from_parser over the sub-parsers of a _Transform's row, from
\* the i-th on: [err, u, toks].  next_field counts the fields seen (0-based).
from_parser_row(subparsers, i, result, next_field, toks) ==
    IF i > Len(subparsers) THEN [err |-> NoErr, u |-> result, toks |-> toks]
    ELSE IF discard(subparsers[i])
    THEN row_tokens_then(
             emit_to_token_sequence(subparsers[i],
                                    get_tok_seq(result, next_field)),
             subparsers, i, result, next_field, toks)
    ELSE IF next_field >= Len(result.field_unparsers)
    THEN [err |-> IndexError, u |-> result, toks |-> toks]
    ELSE row_field_then(
             emit_to_field_unparser(subparsers[i],
                                    result.field_unparsers[next_field + 1]),
             subparsers, i, result, next_field, toks)

\* from_parser on a List, t being the separator's TokenUnparser.from_parser.
from_list_then(t, node) ==
    [err |-> t.err, u |-> ListNodeUnparser(node, t.tok),
     toks |-> {t.tok} \ {NoneTok}]

\* from_parser on the "present" alternative of a booleanized Opt, r being
\* the tokens emitted to result.pre_tokens.
from_present_then(r, node) ==
    [err |-> r.err,
     u |-> [RegularNodeUnparser(node) EXCEPT !.pre_tokens = r.seq],
     toks |-> Range(r.seq)]

\* NodeUnparser.from_parser: [err, u, toks]
from_parser(node, parser0) ==
    LET parser == unwrap_dont_skip(parser0)
        none == [err |-> NoErr, u |-> NoUnparser, toks |-> {}]
    IN
    IF abstract(node) \/ synthetic(node)
    THEN [none EXCEPT !.err = AssertionError]
    ELSE IF is_token_node(node)
    THEN [none EXCEPT
             !.err = check_source_language(parser.kind = "_Transform",
                                           "Unsupported token node parser"),
             !.u = TokenNodeUnparser(node)]
    ELSE IF parser.kind = "_Transform"
    THEN from_parser_row(Sub(parser).kids, 1, RegularNodeUnparser(node), 0, {})
    ELSE IF parser.kind = "List"
    THEN from_list_then(TokenUnparser_from_parser(Sep(parser)), node)
    ELSE IF parser.kind = "Opt"
    THEN IF Booleanize(parser)
         THEN IF node = AltPresent(parser.node)
              THEN from_present_then(
                       emit_to_token_sequence(Sub(parser), <<>>), node)
              ELSE [none EXCEPT !.u = RegularNodeUnparser(node)]
         ELSE from_parser(node, Sub(parser))
    ELSE IF parser.kind = "Null"
    THEN [none EXCEPT !.u = NullNodeUnparser(node)]
    ELSE [none EXCEPT !.err = check_source_language(FALSE, "Unsupported parser")]

(***************************************************************************)
(* creates_node, unparser_struct_eq and find_canonical_parser.             *)
(***************************************************************************)
\* creates_node looking at the kind of the parser only.
creates_node_by_kind(p) ==
    p.kind = "_Transform" \/ p.kind = "Skip" \/ p.kind = "List"
    \/ (p.kind = "Opt" /\ Booleanize(p))

RECURSIVE creates_node(_)
\* creates_node
creates_node(p) ==
    IF p.kind = "Or"
    THEN \A i \in 1..Len(children(p)) : creates_node(children(p)[i])
    ELSE IF p.kind = "Defer"
    THEN is_ast_node(p)
    ELSE IF p.kind = "Opt" /\ creates_node(Sub(p))
    THEN TRUE
    ELSE IF p.kind = "Predicate"
    THEN creates_node(Sub(p))
    ELSE IF p.kind = "_Extract"
    THEN IF Len(Sub(p).kids) # 2 THEN FALSE
         ELSE LET node == Sub(p).kids[1]
                  term == Sub(p).kids[2]
              IN  creates_node(node) /\ term.kind = "_Token"
                  /\ term.val = Termination
    ELSE p.kind = "_Transform" \/ p.kind = "Skip" \/ p.kind = "List"
         \/ (p.kind = "Opt" /\ Booleanize(p))

\* langkit.utils.is_same: all the items of a list are equal.
is_same(items) == \A i, j \in 1..Len(items) : items[i] = items[j]

\* [f(x) for x in seq]
Map(seq, f(_)) == [i \in 1..Len(seq) |-> f(seq[i])]

\* p.children() without the NoBacktrack parsers
ChildrenNoBacktrack(p) == SelectSeq(children(p), LAMBDA c : c.kind # "NoBacktrack")

RECURSIVE unparser_struct_eq(_, _)
RECURSIVE struct_eq_columns(_, _)

\* The first line of unparser_struct_eq keeping the Null parsers.
struct_eq_parsers_keeps_null(parsers0) == Map(parsers0, unwrap_dont_skip)


\* The first line of unparser_struct_eq: drop the Null parsers, unwrap the
\* DontSkip ones.
struct_eq_parsers(parsers0) ==
    Map(SelectSeq(parsers0, LAMBDA p : p.kind # "Null"), unwrap_dont_skip)

\* The end of unparser_struct_eq with creates_node called on the parsers as
\* they are, a Defer parser not being replaced by the parser it refers to.
struct_eq_fallback_unresolved(parsers, toplevel) ==
    IF ~toplevel
    THEN IF \A i \in 1..Len(parsers) : creates_node(parsers[i])
         THEN "True" ELSE "False"
    ELSE "False"

\* The end of unparser_struct_eq: sub-parsers that all create nodes are
\* equal, top-level parsers are not.
struct_eq_fallback(parsers, toplevel) ==
    IF ~toplevel
    THEN IF \A i \in 1..Len(parsers) :
                creates_node(IF parsers[i].kind = "Defer"
                             THEN ResolveDefer(parsers[i].ref)
                             ELSE parsers[i])
         THEN "True" ELSE "False"
    ELSE "False"

\* The _Extract case, rows being the comparison of the extracted rows.
struct_eq_extract_then(rows, parsers) ==
    IF rows # "True" THEN rows
    ELSE IF is_same(Map(parsers, LAMBDA p : p.idx)) THEN "True" ELSE "False"

\* The _Token case finding any two token parsers equal.
struct_eq_tokens_any(parsers) == "True"

\* The _Token case: the parsed token (p.val) is the same for all.
struct_eq_tokens(parsers) ==
    IF is_same(Map(parsers, LAMBDA p : p.val)) THEN "True" ELSE "False"

\* unparser_struct_eq once the parsers are filtered and unwrapped.
struct_eq_body(parsers, toplevel) ==
    IF Len(parsers) = 1 THEN "True"
    ELSE IF Cardinality({parsers[i].kind : i \in 1..Len(parsers)}) = 1
    THEN IF parsers[1].kind \in {"_Row", "_Transform", "List", "Opt"}
         THEN IF is_same(Map(Map(parsers, ChildrenNoBacktrack), Len))
              THEN struct_eq_columns(Map(parsers, ChildrenNoBacktrack), 1)
              ELSE "False"
         ELSE IF parsers[1].kind = "_Token"
         THEN struct_eq_tokens(parsers)
         ELSE IF parsers[1].kind = "_Extract"
         THEN struct_eq_extract_then(
                  unparser_struct_eq(Map(parsers, Sub), TRUE), parsers)
         ELSE IF parsers[1].kind \in {"Defer", "Or"}
         THEN struct_eq_fallback(parsers, toplevel)
         ELSE NotImplementedError
    ELSE struct_eq_fallback(parsers, toplevel)

\* unparser_struct_eq: "True", "False", or NotImplementedError when raised.
unparser_struct_eq(parsers0, toplevel) ==
    struct_eq_body(struct_eq_parsers(parsers0), toplevel)

struct_eq_columns_then(r, children_lists, j) ==
    IF r # "True" THEN r ELSE struct_eq_columns(children_lists, j + 1)

\* all(unparser_struct_eq(c, False) for c in zip(*children_lists)), from the
\* j-th column on: the first result that is not "True" ends the iteration.
struct_eq_columns(children_lists, j) ==
    IF j > Len(children_lists[1]) THEN "True"
    ELSE struct_eq_columns_then(
             unparser_struct_eq(Map(children_lists, LAMBDA c : c[j]), FALSE),
             children_lists, j)

\* find_canonical_parser taking the first recorded producer whatever it holds.
find_canonical_first(parsers) == parsers[1]


RECURSIVE has_null(_)
\* find_canonical_parser.has_null
has_null(parser) ==
    parser.kind = "Null"
    \/ \E i \in 1..Len(children(parser)) : has_null(children(parser)[i])

\* find_canonical_parser
find_canonical_parser(parsers) ==
    LET nulls == SelectSeq(parsers, has_null)
        no_nulls == SelectSeq(parsers, LAMBDA p : ~has_null(p))
    IN  IF Len(no_nulls) > 0 THEN no_nulls[1] ELSE nulls[1]

(***************************************************************************)
(* The combine methods: [err, u] with err "" or the exception raised.      *)
(***************************************************************************)
\* The first exception raised in a sequence of checks, "" if none.
FirstErr(errs) ==
    IF \E i \in 1..Len(errs) : errs[i] # NoErr
    THEN errs[CHOOSE i \in 1..Len(errs) :
                  errs[i] # NoErr /\ \A j \in 1..(i - 1) : errs[j] = NoErr]
    ELSE NoErr

\* FieldUnparser._combine keeping self whatever the two operands hold.
FieldUnparser_combine_keeps_self(self, other) == [err |-> NoErr, u |-> self]

\* FieldUnparser._combine
FieldUnparser_combine(self, other) ==
    IF other.node # self.node \/ other.field # self.field
    THEN [err |-> AssertionError, u |-> self]
    ELSE IF self.always_absent THEN [err |-> NoErr, u |-> other]
    ELSE IF other.always_absent THEN [err |-> NoErr, u |-> self]
    ELSE [err |-> FirstErr(<<
                     check_equivalence(
                         self.pre_tokens,
                         "prefix tokens for " \o qualname(self.node, self.field),
                         other.pre_tokens),
                     check_equivalence(
                         self.post_tokens,
                         "postfix tokens for " \o qualname(self.node, self.field),
                         other.post_tokens)>>),
          u |-> self]

\* RegularNodeUnparser._combine once its checks are made: pre and inter are
\* the results of check_equivalence, fields those of FieldUnparser.combine.
regular_combine_then(self, pre, inter, fields) ==
    [err |-> FirstErr(<<pre>> \o inter
                      \o [i \in 1..Len(fields) |-> fields[i].err]),
     u |-> [RegularNodeUnparser(self.node) EXCEPT
               !.pre_tokens = self.pre_tokens,
               !.post_tokens = self.post_tokens,
               !.inter_tokens = self.inter_tokens,
               !.field_unparsers = [i \in 1..Len(fields) |-> fields[i].u]]]

\* RegularNodeUnparser._combine
RegularNodeUnparser_combine(self, other) ==
    IF self.node # other.node
       \/ Len(self.field_unparsers) # Len(other.field_unparsers)
       \/ Len(self.inter_tokens) # Len(other.inter_tokens)
    THEN [err |-> AssertionError, u |-> self]
    ELSE regular_combine_then(
             self,
             check_equivalence(self.pre_tokens,
                               "prefix tokens for " \o self.node,
                               other.pre_tokens),
             [i \in 1..Len(self.inter_tokens) |->
                 check_equivalence(
                     self.inter_tokens[i],
                     "tokens after "
                         \o qualname(self.node, self.field_unparsers[i].field),
                     other.inter_tokens[i])],
             [i \in 1..Len(self.field_unparsers) |->
                 FieldUnparser_combine(self.field_unparsers[i],
                                       other.field_unparsers[i])])

\* ListNodeUnparser._combine.  The call passes the formatted message as the
\* predicate of check_source_language and the equivalence as its message.
ListNodeUnparser_combine(self, other) ==
    IF self.node # other.node THEN [err |-> AssertionError, u |-> self]
    ELSE [err |-> check_source_language(
                      Truthy("Inconsistent separation token"),
                      IF equivalent(self.separator, other.separator)
                      THEN "True" ELSE "False"),
          u |-> self]

\* TokenNodeUnparser._combine
TokenNodeUnparser_combine(self, other) ==
    IF self.node # other.node THEN [err |-> AssertionError, u |-> self]
    ELSE [err |-> NoErr, u |-> self]

\* Unparser.combine without its assertion on the class of other.
combine_unchecked(self, other) ==
    CASE self.variant = "Regular" -> RegularNodeUnparser_combine(self, other)
      [] self.variant = "List" -> ListNodeUnparser_combine(self, other)
      [] self.variant = "TokenNode" -> TokenNodeUnparser_combine(self, other)
      [] OTHER -> [err |-> NotImplementedError, u |-> self]

\* Unparser.combine: the assertion that other is an instance of self's class,
\* then the class's _combine (not overridden by NullNodeUnparser).
combine(self, other) ==
    IF other.variant # self.variant THEN [err |-> AssertionError, u |-> self]
    ELSE CASE self.variant = "Regular" -> RegularNodeUnparser_combine(self, other)
           [] self.variant = "List" -> ListNodeUnparser_combine(self, other)
           [] self.variant = "TokenNode" -> TokenNodeUnparser_combine(self, other)
           [] OTHER -> [err |-> NotImplementedError, u |-> self]

\* FieldUnparser.collect: the sequences it adds to token_sequence_unparsers.
FieldUnparser_collect(fu) == <<fu.pre_tokens, fu.post_tokens>>

RECURSIVE collect_fields(_, _)
\* The loop of RegularNodeUnparser.collect over zip_fields, from field i on.
collect_fields(u, i) ==
    IF i > Len(u.field_unparsers) THEN <<>>
    ELSE FieldUnparser_collect(u.field_unparsers[i])
         \o <<(<<(<<>>)>> \o u.inter_tokens)[i]>>
         \o collect_fields(u, i + 1)

\* collect of a node unparser leaving out what its fields hold.
collect_without_fields(u) ==
    IF u.variant = "Regular" THEN <<u.pre_tokens, u.post_tokens>> ELSE <<>>


\* collect of the node unparsers: the sequences added, in order.
collect(u) ==
    IF u.variant = "Regular"
    THEN <<u.pre_tokens>> \o collect_fields(u, 1) \o <<u.post_tokens>>
    ELSE <<>>

RECURSIVE combine_all(_, _, _)

\* finalize's loop after combined.combine(unparser) returned r.
combine_all_then(r, unparsers, i) ==
    IF r.err # NoErr THEN r
    ELSE IF unparsers[i].variant # r.u.variant
    THEN [err |-> AssertionError, u |-> r.u]
    ELSE combine_all(r.u, unparsers, i + 1)

\* The loop of finalize folding unparsers[i..] into combined: [err, u].
combine_all(combined, unparsers, i) ==
    IF i > Len(unparsers) THEN [err |-> NoErr, u |-> combined]
    ELSE combine_all_then(combine(combined, unparsers[i]), unparsers, i)

\* finalize's loop body once the Null occurrences are dropped.
finalize_node_then(unparsers) ==
    IF Len(unparsers) = 0 THEN [err |-> AssertionError, u |-> NoUnparser]
    ELSE combine_all(unparsers[1], Tail(unparsers), 1)

\* The body of finalize's loop folding the Null occurrences with the others.
finalize_node_keeps_null(occurrences) == finalize_node_then(occurrences)

\* The body of finalize's loop for one node type with recorded occurrences:
\* [err, u], u being the value stored as node.unparser.
finalize_node(occurrences) ==
    finalize_node_then(SelectSeq(occurrences, LAMBDA u : u.variant # "Null"))

(***************************************************************************)
(* The grammar rules a session may hand to compute.                        *)
(***************************************************************************)
fDefer == Defer("e")
fNull == NullP("E")
fExA == Extract(<<tIdA, Defer("e")>>, 2)
fExB == Extract(<<tIdB, Defer("e")>>, 2)
fExPost == Extract(<<Defer("e"), tRPar>>, 1)
fOpt == OptP("plain", "-", Defer("e"))
fOptBool == OptP("bool", "Q", tLPar)
fOr == OrP(<<Defer("e"), Transform("E", <<tLPar>>)>>)
fPred == Predicate(Defer("e"))

TA(pre, f, post) == Transform("A", pre \o <<f>> \o post)

TB(f1, inter, f2) == Transform("B", <<f1>> \o inter \o <<f2>>)

xA == TA(<<tLPar>>, fDefer, <<tRPar>>)

RegularRules ==
    { TA(<<>>, fDefer, <<>>), xA, TA(<<tLPar>>, fDefer, <<tSemi>>),
      TA(<<tIdA>>, fDefer, <<>>), TA(<<tIdB>>, fDefer, <<>>),
      TA(<<>>, fDefer, <<tIdA>>), TA(<<>>, fDefer, <<tIdB>>),
      TA(<<>>, fNull, <<>>), TA(<<>>, fExA, <<>>), TA(<<>>, fExB, <<>>),
      TA(<<>>, fExPost, <<>>), TA(<<tIdA>>, fExA, <<>>),
      TA(<<tIdB>>, fExB, <<>>), TA(<<>>, fPred, <<>>), TA(<<>>, fOr, <<>>),
      TA(<<>>, fOpt, <<>>), TA(<<>>, fOptBool, <<>>),
      TB(fDefer, <<>>, fDefer), TB(fDefer, <<tComma>>, fDefer),
      TB(fDefer, <<tIdA>>, fDefer), TB(fDefer, <<tIdB>>, fDefer),
      TB(fNull, <<tIdA>>, fExA),
      Transform("B", <<tLPar, fDefer, tComma, tSemi, fDefer, tRPar, tSemi>>),
      TA(<<OptP("error", "-", tLPar), NoBacktrack>>, fDefer,
         <<Row(<<tRPar, tSemi>>)>>),
      Transform("E", <<tLPar, tRPar>>), Transform("E", <<>>),
      Transform("E", <<tIdBare>>),
      Transform("T", <<tIdBare>>) }

ListRules ==
    { ListP("L", Defer("e"), sep) :
        sep \in {<<>>, <<tComma>>, <<tSemi>>, <<tIdA>>, <<tIdB>>, <<tIdComma>>} }
    \cup { ListP("L", fPred, <<tComma>>), ListP("L", Skip("E"), <<tComma>>) }

OptRules == { OptP("bool", "Q", t) : t \in {tLPar, tIdA, tIdB} }

OtherRules ==
    { Extract(<<xA, tTerm>>, 1), Extract(<<tLPar, xA, tRPar>>, 2),
      Extract(<<xA, tSemi>>, 1), Extract(<<xA, tTerm>>, 2),
      Extract(<<tLPar, tTerm>>, 2),
      OrP(<<xA, Extract(<<tLPar, xA, tRPar>>, 2)>>),
      OrP(<<TA(<<>>, fPred, <<>>), Extract(<<tLPar, xA, tRPar>>, 2)>>),
      OrP(<<xA, ListP("L", Defer("e"), <<>>)>>),
      OptP("plain", "-", Extract(<<xA, tSemi>>, 1)),
      OptP("plain", "-", xA),
      Row(<<tLPar, xA>>), tIdA, Defer("e"), Defer("t"),
      Predicate(xA), DontSkip(xA), Skip("E"), NullP("A"),
      TA(<<>>, Extract(<<tLPar, Defer("e"), tRPar>>, 2), <<>>),
      ListP("L", Extract(<<tLPar, xA, tRPar>>, 2), <<>>),
      DontSkipParser(<<tSemi>>), DontSkipParser(<<xA>>) }

Rules == RegularRules \cup ListRules \cup OptRules \cup OtherRules


(***************************************************************************)
(* State of one compilation session.                                       *)
(***************************************************************************)
VARIABLES
    generate_unparser,         \* context.generate_unparser
    nodes_to_rules,            \* Unparsers.nodes_to_rules: node -> parsers
    unparsers,                 \* Unparsers.unparsers: node -> NodeUnparsers
    token_unparsers,           \* Unparsers.token_unparsers (cache, by key)
    token_sequence_unparsers,  \* Unparsers.token_sequence_unparsers
    node_unparser,             \* node.unparser of every node type
    node_parser,               \* node.parser of every node type
    warnings,                  \* warnings emitted through WarningSet
    err,                       \* the exception that ended the session, or ""
    pc,                        \* position in the sequence of passes
    ncomputes,                 \* number of compute calls made
    last,                      \* the last call: its name, rule and entry flag
    operands,                  \* the unparsers handed to combine (SpecCombine)
    combined,                  \* what combining the operands gave: [err, u]
    token_instances,           \* the TokenUnparser objects created (SpecTokens)
    token_unparsers_by_key,    \* the dict token_unparsers: key -> object
    token_sequence,            \* the tokens of one TokenSequenceUnparser
    list_separator,            \* the separator of one ListNodeUnparser
    requests,                  \* the calls made: [parser, err, result]
    subjects,                  \* the parsers handed to a function on parsers
    at_toplevel,               \* the toplevel argument of unparser_struct_eq
    verdicts,                  \* what the function returned for them
    file_lines,                \* the lines of the file f given to _parse_file
    line_no,                   \* line_no of _parse_file: lines read so far
    scope_stack,               \* scope_stack of _parse_file
    properties,                \* LineMap.properties
    parse_error                \* the ParseError raised: [line_no, message]

vars == <<generate_unparser, nodes_to_rules, unparsers, token_unparsers,
          token_sequence_unparsers, node_unparser, node_parser, warnings,
          err, pc, ncomputes, last, operands, combined, token_instances,
          token_unparsers_by_key, token_sequence, list_separator, requests,
          subjects, at_toplevel, verdicts, file_lines, line_no,
          scope_stack, properties, parse_error>>

\* The variables of the token unparsers taken as objects.
instance_vars ==
    <<token_instances, token_unparsers_by_key, token_sequence,
      list_separator, requests>>

\* The variables of the functions on parsers taken on their own.
function_vars == <<subjects, at_toplevel, verdicts>>

\* The variables of LineMap._parse_file.
linemap_vars ==
    <<file_lines, line_no, scope_stack, properties, parse_error>>

\* ParseError not raised.
NoParseError == [line_no |-> 0, message |-> ""]

\* No file is being parsed: LineMap.__init__.
NoLineMap ==
    /\ file_lines = <<>>
    /\ line_no = 0
    /\ scope_stack = <<>>
    /\ properties = <<>>
    /\ parse_error = NoParseError

\* The registry and the node types as Unparsers.__init__ finds them.
InitRegistry ==
    /\ nodes_to_rules = [n \in Nodes |-> <<>>]
    /\ unparsers = [n \in Nodes |-> <<>>]
    /\ token_unparsers = {}
    /\ token_sequence_unparsers = <<>>
    /\ node_unparser = [n \in Nodes |-> NoUnparser]
    /\ node_parser = [n \in Nodes |-> NoParser]
    /\ warnings = <<>>
    /\ err = NoErr
    /\ ncomputes = 0
    /\ last = [op |-> "init", rule |-> NoParser, gen |-> generate_unparser]
    /\ token_instances = <<>>
    /\ token_unparsers_by_key = <<>>
    /\ token_sequence = <<>>
    /\ list_separator = 0
    /\ requests = <<>>
    /\ verdicts = <<>>

\* Unparsers.__init__, and the node types before the pass.
Init ==
    /\ generate_unparser \in BOOLEAN
    /\ InitRegistry
    /\ NoLineMap
    /\ subjects = <<>>
    /\ at_toplevel = TRUE
    /\ pc = "compute"
    /\ operands = <<>>
    /\ combined = [err |-> NoErr, u |-> NoUnparser]

\* abort_unparser flipping the flag instead of clearing it.
abort_unparser_toggles(message, warns, gen) ==
    [warnings |-> Append(warns, [set |-> "unparser_bad_grammar",
                                 about |-> message,
                                 extra_info |-> gen]),
     generate_unparser |-> ~gen]

\* abort_unparser emitting its warning and leaving the flag as it is.
abort_unparser_warns_only(message, warns, gen) ==
    [warnings |-> Append(warns, [set |-> "unparser_bad_grammar",
                                 about |-> message,
                                 extra_info |-> gen]),
     generate_unparser |-> gen]

\* Unparsers.abort_unparser, gen being context.generate_unparser: the warning
\* emitted (extra_info: it carries the hint given while the generation is
\* still enabled) and the flag's new value.
abort_unparser(message, warns, gen) ==
    [warnings |-> Append(warns, [set |-> "unparser_bad_grammar",
                                 about |-> message,
                                 extra_info |-> gen]),
     generate_unparser |-> FALSE]

\* compute.append putting the derived occurrence in front of the list.
compute_append_prepends(r, node, st) ==
    IF r.err # NoErr THEN [st EXCEPT !.err = r.err]
    ELSE [st EXCEPT !.unp = [st.unp EXCEPT
                                ![node] = <<r.u>> \o st.unp[node]],
                    !.toks = st.toks \cup r.toks]


\* compute.append after NodeUnparser.from_parser returned r.
compute_append_then(r, node, st) ==
    IF r.err # NoErr THEN [st EXCEPT !.err = r.err]
    ELSE [st EXCEPT !.unp = [st.unp EXCEPT
                                ![node] = Append(st.unp[node], r.u)],
                    !.toks = st.toks \cup r.toks]

\* compute.append deriving the unparser whatever the flag says.
compute_append_always(node, parser, st, gen) ==
    compute_append_then(from_parser(node, parser), node, st)

\* compute.append after "self.nodes_to_rules[node].append(parser)".
compute_append_derive(node, parser, st, gen) ==
    IF gen THEN compute_append_then(from_parser(node, parser), node, st)
    ELSE st

\* Unparsers.compute.append, on the walk's state st = [ntr, unp, toks, err].
compute_append(node, parser, st, gen) ==
    compute_append_derive(
        node, parser,
        [st EXCEPT !.ntr = [st.ntr EXCEPT
                               ![node] = Append(st.ntr[node], parser)]],
        gen)

RECURSIVE append_alternatives(_, _, _, _, _)
\* "for alt in p._booleanize._alternatives: append(alt.type, p)", from alt i.
append_alternatives(alts, i, p, st, gen) ==
    IF i > Len(alts) \/ st.err # NoErr THEN st
    ELSE append_alternatives(alts, i + 1, p,
                             compute_append(alts[i], p, st, gen), gen)

\* The predicate of the top-level check with the test of toplevel inverted.
extract_allowed_inverted(p, toplevel, gen) ==
    \/ ~gen
    \/ toplevel
    \/ /\ Len(Sub(p).kids) = 2
       /\ Sub(p).kids[2].kind = "_Token"
       /\ Sub(p).kids[2].val = Termination

\* The predicate of the top-level check letting every two-element row pass.
extract_allowed_any_pair(p, toplevel, gen) ==
    \/ ~gen
    \/ ~toplevel
    \/ Len(Sub(p).kids) = 2

\* The predicate compute_internal hands to check_source_language for the
\* _Extract parser p: no rejection unless the generation is requested and p
\* is at the top level, where only a two-element row ending with the
\* termination token is let through.
extract_allowed(p, toplevel, gen) ==
    \/ ~gen
    \/ ~toplevel
    \/ /\ Len(Sub(p).kids) = 2
       /\ Sub(p).kids[2].kind = "_Token"
       /\ Sub(p).kids[2].val = Termination

\* The branch of compute_internal taken for parser p, before it walks p's
\* children: the walk's state and the toplevel flag the children get.
compute_visit(p, toplevel, st, gen) ==
    CASE p.kind = "Skip" ->
            [st |-> st, toplevel |-> toplevel]
      [] p.kind = "Opt" /\ Booleanize(p) ->
            [st |-> append_alternatives(EnumAlternatives(p.node), 1, p, st, gen),
             toplevel |-> FALSE]
      [] p.kind \in {"List", "_Transform"} ->
            [st |-> compute_append(get_type(p), p, st, gen),
             toplevel |-> FALSE]
      [] p.kind \in {"Null", "Or"} ->
            [st |-> st, toplevel |-> toplevel]
      [] p.kind = "_Extract" ->
            [st |-> [st EXCEPT !.err =
                        check_source_language(
                            extract_allowed(p, toplevel, gen),
                            "Top-level information loss prevents unparsers generation")],
             toplevel |-> toplevel]
      [] OTHER ->
            [st |-> st, toplevel |-> toplevel]

RECURSIVE compute_internal(_, _, _, _)
RECURSIVE compute_children(_, _, _, _, _)

compute_internal_then(v, p, gen) ==
    compute_children(children(p), 1, v.toplevel, v.st, gen)

\* Unparsers.compute.compute_internal on the walk's state st; an exception
\* already raised (st.err) ends the walk.
compute_internal(p, toplevel, st, gen) ==
    IF st.err # NoErr THEN st
    ELSE compute_internal_then(compute_visit(p, toplevel, st, gen), p, gen)

\* "for c in p.children(): compute_internal(c, toplevel)", from child i.
compute_children(kids, i, toplevel, st, gen) ==
    IF i > Len(kids) \/ st.err # NoErr THEN st
    ELSE compute_children(kids, i + 1, toplevel,
                          compute_internal(kids[i], toplevel, st, gen), gen)

\* The end of compute with the test of creates_node inverted.
ComputeEnd_inverted(st, parser) ==
    /\ nodes_to_rules' = st.ntr
    /\ unparsers' = st.unp
    /\ token_unparsers' = st.toks
    /\ err' = st.err
    /\ pc' = IF st.err # NoErr THEN "raised" ELSE pc
    /\ IF st.err = NoErr /\ creates_node(parser)
       THEN /\ warnings' = Append(warnings,
                                  [set |-> "unparser_bad_grammar",
                                   about |-> "toplevel rule loses information",
                                   extra_info |-> generate_unparser])
            /\ generate_unparser' = FALSE
       ELSE UNCHANGED <<warnings, generate_unparser>>

\* The end of compute, st being the state compute_internal(parser) left:
\* the exception it raised ends the session, else a rule that does not
\* create a node aborts the generation.
ComputeEnd(st, parser) ==
    /\ nodes_to_rules' = st.ntr
    /\ unparsers' = st.unp
    /\ token_unparsers' = st.toks
    /\ err' = st.err
    /\ pc' = IF st.err # NoErr THEN "raised" ELSE pc
    /\ IF st.err = NoErr /\ ~creates_node(parser)
       THEN /\ warnings' =
                abort_unparser("toplevel rule loses information", warnings,
                               generate_unparser).warnings
            /\ generate_unparser' =
                abort_unparser("toplevel rule loses information", warnings,
                               generate_unparser).generate_unparser
       ELSE UNCHANGED <<warnings, generate_unparser>>

\* Unparsers.compute on one grammar rule.
Compute(parser) ==
    /\ pc = "compute"
    /\ ncomputes < MaxComputes
    /\ ncomputes' = ncomputes + 1
    /\ last' = [op |-> "compute", rule |-> parser, gen |-> generate_unparser]
    /\ UNCHANGED <<token_sequence_unparsers, node_unparser, node_parser,
                   operands, combined, instance_vars, linemap_vars,
                   function_vars>>
    /\ IF parser.is_dont_skip_parser
       THEN UNCHANGED <<generate_unparser, nodes_to_rules, unparsers,
                        token_unparsers, warnings, err, pc>>
       ELSE ComputeEnd(
                compute_internal(
                    parser, TRUE,
                    [ntr |-> nodes_to_rules, unp |-> unparsers,
                     toks |-> token_unparsers, err |-> NoErr],
                    generate_unparser),
                parser)

\* The first loop of check_nodes_to_rules warning for base list types too.
unused_node_types_with_base_lists ==
    SelectSeq(astnode_types,
              LAMBDA node_type :
                  /\ Len(nodes_to_rules[node_type]) = 0
                  /\ ~abstract(node_type)
                  /\ ~synthetic(node_type))


\* The first loop of check_nodes_to_rules: the node types, in order, for
\* which the "unused node type" warning is emitted.
unused_node_types ==
    SelectSeq(astnode_types,
              LAMBDA node_type :
                  /\ Len(nodes_to_rules[node_type]) = 0
                  /\ ~abstract(node_type)
                  /\ ~synthetic(node_type)
                  /\ ~(is_list_type(node_type) /\ is_base_list(node_type)))

\* The keys of nodes_to_rules: the node types with a recorded producer.
Keys == {n \in Nodes : Len(nodes_to_rules[n]) > 0}

\* Unparsers.check_nodes_to_rules.  The dict nodes_to_rules is iterated in
\* no particular order: the second loop handles the node types of `done`
\* (whose producers are structurally equal), then `stop`, the first node
\* type whose comparison does not return True, if there is one.
CheckNodesToRules ==
    /\ pc = "compute"
    /\ last' = [op |-> "check", rule |-> NoParser, gen |-> generate_unparser]
    /\ UNCHANGED <<nodes_to_rules, unparsers, token_unparsers,
                   token_sequence_unparsers, node_unparser, ncomputes,
                   operands, combined, instance_vars, linemap_vars,
                   function_vars>>
    /\ LET unused == [i \in 1..Len(unused_node_types) |->
                         [set |-> "unused_node_type",
                          about |-> unused_node_types[i],
                          extra_info |-> FALSE]]
           eq(n) == unparser_struct_eq(nodes_to_rules[n], TRUE)
           equal == {n \in Keys : eq(n) = "True"}
           canonical(done) ==
               [n \in Nodes |-> IF n \in done
                                THEN find_canonical_parser(nodes_to_rules[n])
                                ELSE node_parser[n]]
       IN  IF ~generate_unparser
           THEN /\ warnings' = warnings \o unused
                /\ pc' = "checked"
                /\ UNCHANGED <<generate_unparser, node_parser, err>>
           ELSE \/ /\ equal = Keys
                   /\ warnings' = warnings \o unused
                   /\ node_parser' = canonical(Keys)
                   /\ pc' = "checked"
                   /\ UNCHANGED <<generate_unparser, err>>
                \/ \E stop \in Keys \ equal : \E done \in SUBSET equal :
                   /\ node_parser' = canonical(done)
                   /\ IF eq(stop) = "False"
                      THEN LET a == abort_unparser(stop, warnings \o unused,
                                                   generate_unparser)
                           IN  /\ warnings' = a.warnings
                               /\ generate_unparser' = a.generate_unparser
                               /\ pc' = "checked"
                               /\ UNCHANGED err
                      ELSE /\ warnings' = warnings \o unused
                           /\ err' = eq(stop)
                           /\ pc' = "raised"
                           /\ UNCHANGED generate_unparser

RECURSIVE finalize_loop(_, _)

\* finalize's loop after the occurrences of node were combined into r.
finalize_loop_then(r, node, i, st) ==
    IF r.err # NoErr THEN [st EXCEPT !.err = r.err]
    ELSE finalize_loop(i + 1,
                       [st EXCEPT !.node_unparser[node] = r.u,
                                  !.tsu = st.tsu \o collect(r.u)])

\* The loop of finalize over context.astnode_types, from the i-th node type
\* on, on st = [err, node_unparser, tsu]; an exception ends it.
finalize_loop(i, st) ==
    IF i > Len(astnode_types) \/ st.err # NoErr THEN st
    ELSE IF Len(unparsers[astnode_types[i]]) = 0 THEN finalize_loop(i + 1, st)
    ELSE finalize_loop_then(finalize_node(unparsers[astnode_types[i]]),
                            astnode_types[i], i, st)

\* The end of finalize, st being the state its loop left.
FinalizeEnd(st) ==
    /\ node_unparser' = st.node_unparser
    /\ token_sequence_unparsers' = st.tsu
    /\ err' = st.err
    /\ pc' = IF st.err # NoErr THEN "raised" ELSE "finalized"

\* Unparsers.finalize
Finalize ==
    /\ pc = "checked"
    /\ last' = [op |-> "finalize", rule |-> NoParser, gen |-> generate_unparser]
    /\ UNCHANGED <<generate_unparser, nodes_to_rules, unparsers,
                   token_unparsers, node_parser, warnings, ncomputes,
                   operands, combined, instance_vars, linemap_vars,
                   function_vars>>
    /\ FinalizeEnd(finalize_loop(1, [err |-> NoErr,
                                     node_unparser |-> node_unparser,
                                     tsu |-> token_sequence_unparsers]))

\* The passes of one session: compute on each grammar rule, then
\* check_nodes_to_rules, then finalize; an exception ends the session.
Next ==
    \/ \E parser \in Rules : Compute(parser)
    \/ CheckNodesToRules
    \/ Finalize

Spec == Init /\ [][Next]_vars

TypeOK ==
    /\ generate_unparser \in BOOLEAN
    /\ pc \in {"compute", "checked", "finalized", "raised"}
    /\ ncomputes \in 0..MaxComputes
    /\ (pc = "raised") = (err # NoErr)

(***************************************************************************)
(* The combine methods on their own: the operands are occurrences the     *)
(* derivation yields for one node type, and one call is made on them.      *)
(***************************************************************************)
\* Number of occurrences handed to finalize's fold at most.
MaxOperands == 3

\* The (node type, parser) pairs compute.append is called with for p itself.
producers_of(p) ==
    IF p.kind = "Opt" /\ Booleanize(p)
    THEN {<<alt, p>> : alt \in Range(EnumAlternatives(p.node))}
    ELSE IF p.kind \in {"List", "_Transform"} THEN {<<get_type(p), p>>}
    ELSE {}

\* What NodeUnparser.from_parser returns for the node type n over the rules,
\* and for the Null parser of n.
Occurrences(n) ==
    {from_parser(n, pr[2]).u :
        pr \in {q \in UNION {producers_of(r) : r \in Rules} :
                   q[1] = n /\ from_parser(n, q[2]).err = NoErr}}
    \cup {from_parser(n, NullP(n)).u}

OperandLists ==
    UNION {[1..k -> Occurrences(n)] : k \in 1..MaxOperands, n \in Nodes}

registry_vars ==
    <<generate_unparser, nodes_to_rules, unparsers, token_unparsers,
      token_sequence_unparsers, node_unparser, node_parser, warnings, err,
      ncomputes, last>>

InitCombine ==
    /\ generate_unparser = TRUE
    /\ InitRegistry
    /\ NoLineMap
    /\ subjects = <<>>
    /\ at_toplevel = TRUE
    /\ pc = "operands"
    /\ operands \in OperandLists
    /\ combined = [err |-> NoErr, u |-> NoUnparser]

\* operands[1].combine(operands[2]) on two node unparsers.
CombineOperands ==
    /\ pc = "operands"
    /\ Len(operands) = 2
    /\ combined' = combine(operands[1], operands[2])
    /\ pc' = "combined"
    /\ UNCHANGED <<registry_vars, operands, instance_vars,
                   linemap_vars, function_vars>>

\* The body of finalize's loop on the operands: Null occurrences dropped,
\* the others folded with combine.
FoldOperands ==
    /\ pc = "operands"
    /\ combined' = finalize_node(operands)
    /\ pc' = "folded"
    /\ UNCHANGED <<registry_vars, operands, instance_vars,
                   linemap_vars, function_vars>>

\* FieldUnparser.combine on the unparsers two Regular operands hold for the
\* same parse field.
CombineFieldOperands ==
    /\ pc = "operands"
    /\ Len(operands) = 2
    /\ operands[1].variant = "Regular"
    /\ operands[2].variant = "Regular"
    /\ \E f \in 1..Len(operands[1].field_unparsers) :
           combined' = FieldUnparser_combine(operands[1].field_unparsers[f],
                                             operands[2].field_unparsers[f])
    /\ pc' = "field_combined"
    /\ UNCHANGED <<registry_vars, operands, instance_vars,
                   linemap_vars, function_vars>>

NextCombine ==
    \/ CombineOperands
    \/ FoldOperands
    \/ CombineFieldOperands

SpecCombine == InitCombine /\ [][NextCombine]_vars

(***************************************************************************)
(* The token unparsers as objects: TokenUnparser.from_parser with the dict *)
(* token_unparsers, an object being its position in token_instances and    *)
(* None being 0.                                                           *)
(***************************************************************************)
\* Number of calls of TokenUnparser.from_parser in one run at most.
MaxRequests == 3

\* "key = (token, match_text)", match_text being "parser.match_text or None".
token_key(parser) == <<parser.val, parser.text>>

\* TokenUnparser.from_parser creating a TokenUnparser at every call.
TokenUnparser_from_parser_uncached(parser, by_key, instances) ==
    IF parser = NoParser
    THEN [err |-> NoErr, result |-> 0, by_key |-> by_key,
          instances |-> instances]
    ELSE IF parser.kind # "_Token"
    THEN [err |-> AssertionError, result |-> 0, by_key |-> by_key,
          instances |-> instances]
    ELSE IF TokenUnparser(parser.val, parser.text).err # NoErr
    THEN [err |-> TokenUnparser(parser.val, parser.text).err, result |-> 0,
          by_key |-> by_key, instances |-> instances]
    ELSE [err |-> NoErr,
          result |-> Len(instances) + 1,
          by_key |-> [k \in DOMAIN by_key \cup {token_key(parser)} |->
                         IF k = token_key(parser) THEN Len(instances) + 1
                         ELSE by_key[k]],
          instances |-> Append(instances,
                               TokenUnparser(parser.val, parser.text).tok)]

\* TokenUnparser.from_parser on the dict by_key and the objects created so
\* far: [err, result, by_key, instances].
TokenUnparser_from_parser_cached(parser, by_key, instances) ==
    IF parser = NoParser
    THEN [err |-> NoErr, result |-> 0, by_key |-> by_key,
          instances |-> instances]
    ELSE IF parser.kind # "_Token"
    THEN [err |-> AssertionError, result |-> 0, by_key |-> by_key,
          instances |-> instances]
    ELSE IF token_key(parser) \in DOMAIN by_key
    THEN [err |-> NoErr, result |-> by_key[token_key(parser)],
          by_key |-> by_key, instances |-> instances]
    ELSE IF TokenUnparser(parser.val, parser.text).err # NoErr
    THEN [err |-> TokenUnparser(parser.val, parser.text).err, result |-> 0,
          by_key |-> by_key, instances |-> instances]
    ELSE [err |-> NoErr,
          result |-> Len(instances) + 1,
          by_key |-> [k \in DOMAIN by_key \cup {token_key(parser)} |->
                         IF k = token_key(parser) THEN Len(instances) + 1
                         ELSE by_key[k]],
          instances |-> Append(instances,
                               TokenUnparser(parser.val, parser.text).tok)]

\* The _Token parsers of the grammar.
TokenParsers == {tLPar, tRPar, tComma, tIdA, tIdB, tIdComma, tIdBare}

InitTokens ==
    /\ generate_unparser = TRUE
    /\ InitRegistry
    /\ NoLineMap
    /\ subjects = <<>>
    /\ at_toplevel = TRUE
    /\ pc = "tokens"
    /\ operands = <<>>
    /\ combined = [err |-> NoErr, u |-> NoUnparser]

\* What a call of TokenUnparser.from_parser leaves behind, r being its result.
Requested(parser, r) ==
    /\ token_unparsers_by_key' = r.by_key
    /\ token_instances' = r.instances
    /\ requests' = Append(requests, [parser |-> parser, err |-> r.err,
                                     result |-> r.result])
    /\ err' = r.err
    /\ pc' = IF r.err # NoErr THEN "raised" ELSE pc
    /\ UNCHANGED <<generate_unparser, nodes_to_rules, unparsers,
                   token_unparsers, token_sequence_unparsers, node_unparser,
                   node_parser, warnings, ncomputes, last, operands, combined,
                   function_vars, linemap_vars>>

\* NodeUnparser._emit_to_token_sequence on a _Token parser.
EmitToken(parser) ==
    /\ pc = "tokens"
    /\ Len(requests) < MaxRequests
    /\ LET r == TokenUnparser_from_parser_cached(parser,
                                                 token_unparsers_by_key,
                                                 token_instances)
       IN  /\ Requested(parser, r)
           /\ token_sequence' = IF r.err = NoErr
                                THEN Append(token_sequence, r.result)
                                ELSE token_sequence
           /\ UNCHANGED list_separator

\* NodeUnparser.from_parser on a List parser whose separator is sep.
ListSeparator(sep) ==
    /\ pc = "tokens"
    /\ Len(requests) < MaxRequests
    /\ LET r == TokenUnparser_from_parser_cached(sep, token_unparsers_by_key,
                                                 token_instances)
       IN  /\ Requested(sep, r)
           /\ list_separator' = IF r.err = NoErr THEN r.result
                                ELSE list_separator
           /\ UNCHANGED token_sequence

NextTokens ==
    \/ \E parser \in TokenParsers : EmitToken(parser)
    \/ \E sep \in TokenParsers \cup {NoParser} : ListSeparator(sep)

SpecTokens == InitTokens /\ [][NextTokens]_vars

(***************************************************************************)
(* creates_node on its own: a parser is wrapped again and again, and the   *)
(* function is called on each parser obtained.                             *)
(***************************************************************************)
\* Number of wrappers put around a parser at most.
MaxWraps == 2

\* The wrappers: the optionals, the predicate and the DontSkip parser.
Wrappers == {"Opt", "OptError", "OptBool", "Predicate", "DontSkip"}

\* The parser p inside the wrapper w.
Wrapped(w, p) ==
    CASE w = "Opt" -> OptP("plain", "-", p)
      [] w = "OptError" -> OptP("error", "-", p)
      [] w = "OptBool" -> OptP("bool", "Q", p)
      [] w = "Predicate" -> Predicate(p)
      [] w = "DontSkip" -> DontSkip(p)

InitCreatesNode ==
    /\ generate_unparser = TRUE
    /\ InitRegistry
    /\ NoLineMap
    /\ pc = "creates_node"
    /\ operands = <<>>
    /\ combined = [err |-> NoErr, u |-> NoUnparser]
    /\ subjects \in {<<p>> : p \in Rules}
    /\ at_toplevel = TRUE

\* creates_node called on the last parser obtained.
CreatesNode ==
    /\ pc = "creates_node"
    /\ Len(verdicts) < Len(subjects)
    /\ verdicts' = Append(verdicts, creates_node(subjects[Len(subjects)]))
    /\ UNCHANGED <<registry_vars, pc, operands, combined, instance_vars,
                   linemap_vars,
                   subjects, at_toplevel>>

\* The last parser obtained is put inside the wrapper w.
WrapSubject(w) ==
    /\ pc = "creates_node"
    /\ Len(verdicts) = Len(subjects)
    /\ Len(subjects) <= MaxWraps
    /\ subjects' = Append(subjects, Wrapped(w, subjects[Len(subjects)]))
    /\ UNCHANGED <<registry_vars, pc, operands, combined, instance_vars,
                   linemap_vars,
                   at_toplevel, verdicts>>

NextCreatesNode ==
    \/ CreatesNode
    \/ \E w \in Wrappers : WrapSubject(w)

SpecCreatesNode == InitCreatesNode /\ [][NextCreatesNode]_vars

(***************************************************************************)
(* unparser_struct_eq on its own: called once on a list of parsers.        *)
(***************************************************************************)
\* Number of parsers in the list handed to unparser_struct_eq at most.
MaxSubjects == 2

\* The parsers compared: rules that build a node, token parsers, rows of
\* tokens, and the parsers the function drops or unwraps.
ComparedParsers ==
    RegularRules \cup ListRules \cup OptRules
    \cup {tLPar, tRPar, tIdA, tIdB, tIdComma, tComma}
    \cup {Row(<<tIdA, tLPar>>), Row(<<tIdB, tLPar>>), Row(<<tIdA, tRPar>>),
          Row(<<NullP("A")>>), Row(<<>>),
          TA(<<>>, fPred, <<tLPar>>), TA(<<>>, fPred, <<tSemi>>),
          NullP("A"), NullP("B"), DontSkip(xA), DontSkip(NullP("A")),
          Defer("e"), Defer("t"), Defer("x"), fOr, fPred, fExA, fExB,
          Extract(<<xA, tTerm>>, 1), Extract(<<xA, tTerm>>, 2)}

InitStructEq ==
    /\ generate_unparser = TRUE
    /\ InitRegistry
    /\ NoLineMap
    /\ pc = "struct_eq"
    /\ operands = <<>>
    /\ combined = [err |-> NoErr, u |-> NoUnparser]
    /\ subjects \in UNION {[1..n -> ComparedParsers] : n \in 1..MaxSubjects}
    /\ at_toplevel \in BOOLEAN

\* unparser_struct_eq(subjects, at_toplevel)
StructEq ==
    /\ pc = "struct_eq"
    /\ verdicts = <<>>
    /\ verdicts' = <<unparser_struct_eq(subjects, at_toplevel)>>
    /\ UNCHANGED <<registry_vars, pc, operands, combined, instance_vars,
                   linemap_vars,
                   subjects, at_toplevel>>

NextStructEq == StructEq

SpecStructEq == InitStructEq /\ [][NextStructEq]_vars

(***************************************************************************)
(* NodeUnparser._emit_to_field_unparser on its own: a field sub-parser is  *)
(* wrapped again and again, and each parser obtained is analysed into a    *)
(* FieldUnparser that was just constructed.                                *)
(***************************************************************************)
\* Number of wrappers put around a field sub-parser at most.
MaxNesting == 2

\* The sub-parsers a row may hold at the place of a field.
FieldParsers ==
    { Defer("e"), ListP("L", Defer("e"), <<tComma>>), NullP("E"),
      Transform("E", <<tLPar>>), fOptBool, fOr,
      OrP(<<Defer("e"), Skip("E")>>), Predicate(Defer("e")), Skip("E"),
      tLPar, Row(<<Defer("e")>>), NoBacktrack, DontSkip(NullP("E")) }

\* The siblings of the extracted element on one of its sides.
SiblingRuns ==
    { <<>>, <<tLPar>>, <<tIdA, tComma>>, <<Row(<<tRPar, tSemi>>)>>,
      <<NoBacktrack, OptP("error", "-", tSemi)>>, <<tRPar, Defer("e")>> }

\* The wrappers: an extraction with its siblings, the optionals, DontSkip.
FieldWrappers ==
    { [w |-> "Extract", pre |-> a, post |-> b] :
        a \in SiblingRuns, b \in SiblingRuns }
    \cup { [w |-> k, pre |-> <<>>, post |-> <<>>] :
             k \in {"Opt", "OptBool", "DontSkip"} }

\* The parser p inside the wrapper w.
FieldWrapped(w, p) ==
    IF w.w = "Extract"
    THEN Extract(w.pre \o <<p>> \o w.post, Len(w.pre) + 1)
    ELSE Wrapped(w.w, p)

InitFields ==
    /\ generate_unparser = TRUE
    /\ InitRegistry
    /\ NoLineMap
    /\ pc = "fields"
    /\ operands = <<>>
    /\ combined = [err |-> NoErr, u |-> NoUnparser]
    /\ subjects \in {<<p>> : p \in FieldParsers}
    /\ at_toplevel = TRUE

\* _emit_to_field_unparser called on the last parser obtained and on the
\* FieldUnparser just constructed for the field of A.
EmitToFieldUnparser ==
    /\ pc = "fields"
    /\ Len(verdicts) < Len(subjects)
    /\ verdicts' = Append(verdicts,
                          emit_to_field_unparser(subjects[Len(subjects)],
                                                 FieldUnparser("A", 1)))
    /\ UNCHANGED <<registry_vars, pc, operands, combined, instance_vars,
                   linemap_vars,
                   subjects, at_toplevel>>

\* The last parser obtained is put inside the wrapper w.
WrapFieldParser(w) ==
    /\ pc = "fields"
    /\ Len(verdicts) = Len(subjects)
    /\ Len(subjects) <= MaxNesting
    /\ subjects' = Append(subjects, FieldWrapped(w, subjects[Len(subjects)]))
    /\ UNCHANGED <<registry_vars, pc, operands, combined, instance_vars,
                   linemap_vars,
                   at_toplevel, verdicts>>

NextFields ==
    \/ EmitToFieldUnparser
    \/ \E w \in FieldWrappers : WrapFieldParser(w)

SpecFields == InitFields /\ [][NextFields]_vars

(***************************************************************************)
(* NodeUnparser.from_parser for a token node on its own: a parser is       *)
(* wrapped again and again, and the unparser of the token node T is        *)
(* derived from each parser obtained.                                      *)
(***************************************************************************)
\* The parsers handed to from_parser for the token node T.
TokenNodeParsers ==
    { Transform("T", <<tIdBare>>), Transform("T", <<tIdA>>),
      Transform("T", <<>>), Transform("T", <<tIdA, tIdB>>),
      Transform("T", <<tLPar, tIdBare, tRPar>>),
      Transform("T", <<Defer("e")>>),
      ListP("T", Defer("e"), <<>>), ListP("T", Defer("e"), <<tComma>>),
      NullP("T"), Skip("T"), tIdBare, Row(<<tIdBare>>), Defer("t"),
      OrP(<<Transform("T", <<tIdBare>>)>>),
      Extract(<<Transform("T", <<tIdBare>>), tTerm>>, 1) }

InitTokenNodes ==
    /\ generate_unparser = TRUE
    /\ InitRegistry
    /\ NoLineMap
    /\ pc = "token_nodes"
    /\ operands = <<>>
    /\ combined = [err |-> NoErr, u |-> NoUnparser]
    /\ subjects \in {<<p>> : p \in TokenNodeParsers}
    /\ at_toplevel = TRUE

\* NodeUnparser.from_parser(T, parser) on the last parser obtained.
FromTokenNodeParser ==
    /\ pc = "token_nodes"
    /\ Len(verdicts) < Len(subjects)
    /\ verdicts' = Append(verdicts, from_parser("T", subjects[Len(subjects)]))
    /\ UNCHANGED <<registry_vars, pc, operands, combined, instance_vars,
                   linemap_vars,
                   subjects, at_toplevel>>

\* The last parser obtained is put inside the wrapper w.
WrapTokenNodeParser(w) ==
    /\ pc = "token_nodes"
    /\ Len(verdicts) = Len(subjects)
    /\ Len(subjects) <= MaxWraps
    /\ subjects' = Append(subjects, Wrapped(w, subjects[Len(subjects)]))
    /\ UNCHANGED <<registry_vars, pc, operands, combined, instance_vars,
                   linemap_vars,
                   at_toplevel, verdicts>>

NextTokenNodes ==
    \/ FromTokenNodeParser
    \/ \E w \in Wrappers : WrapTokenNodeParser(w)

SpecTokenNodes == InitTokenNodes /\ [][NextTokenNodes]_vars

(***************************************************************************)
(* finalize on its own: occurrences are recorded in the registry the way   *)
(* compute's append records them, for any parser from_parser accepts, the  *)
(* Null parser of a node type included, and finalize is run on the         *)
(* registry obtained.                                                      *)
(***************************************************************************)
\* Number of occurrences recorded at most.
MaxRecorded == 3

\* The (node type, parser) pairs recorded.
RecordedProducers ==
    { <<"A", xA>>, <<"A", TA(<<tLPar>>, fDefer, <<tSemi>>)>>,
      <<"A", TA(<<tIdA>>, fDefer, <<>>)>>,
      <<"A", TA(<<tLPar>>, fNull, <<tRPar>>)>>,
      <<"A", NullP("A")>>,
      <<"E", Transform("E", <<tLPar>>)>>, <<"E", NullP("E")>>,
      <<"T", Transform("T", <<tIdBare>>)>>,
      <<"L", ListP("L", Defer("e"), <<tComma>>)>>,
      <<"L", ListP("L", Defer("e"), <<tSemi>>)>>, <<"L", NullP("L")>>,
      <<"QPresent", fOptBool>>, <<"QAbsent", fOptBool>> }

RECURSIVE RecordedCount(_)
\* The number of occurrences recorded for the first i node types.
RecordedCount(i) ==
    IF i = 0 THEN 0
    ELSE Len(unparsers[astnode_types[i]]) + RecordedCount(i - 1)

InitFinalize ==
    /\ generate_unparser = TRUE
    /\ InitRegistry
    /\ NoLineMap
    /\ pc = "recording"
    /\ operands = <<>>
    /\ combined = [err |-> NoErr, u |-> NoUnparser]
    /\ subjects = <<>>
    /\ at_toplevel = TRUE

\* compute's append(node, parser) with generation enabled.
RecordOccurrence(node, parser) ==
    /\ pc = "recording"
    /\ RecordedCount(Len(astnode_types)) < MaxRecorded
    /\ from_parser(node, parser).err = NoErr
    /\ nodes_to_rules' = [nodes_to_rules EXCEPT ![node] = Append(@, parser)]
    /\ unparsers' = [unparsers EXCEPT
                        ![node] = Append(@, from_parser(node, parser).u)]
    /\ token_unparsers' = token_unparsers \cup from_parser(node, parser).toks
    /\ last' = [op |-> "append", rule |-> parser, gen |-> generate_unparser]
    /\ UNCHANGED <<generate_unparser, token_sequence_unparsers, node_unparser,
                   node_parser, warnings, err, ncomputes, pc, operands,
                   combined, instance_vars, linemap_vars, function_vars>>

\* Unparsers.finalize on the registry recorded.
FinalizeRecorded ==
    /\ pc = "recording"
    /\ last' = [op |-> "finalize", rule |-> NoParser, gen |-> generate_unparser]
    /\ UNCHANGED <<generate_unparser, nodes_to_rules, unparsers,
                   token_unparsers, node_parser, warnings, ncomputes,
                   operands, combined, instance_vars,
                   linemap_vars, function_vars>>
    /\ FinalizeEnd(finalize_loop(1, [err |-> NoErr,
                                     node_unparser |-> node_unparser,
                                     tsu |-> token_sequence_unparsers]))

NextFinalize ==
    \/ \E pr \in RecordedProducers : RecordOccurrence(pr[1], pr[2])
    \/ FinalizeRecorded

SpecFinalize == InitFinalize /\ [][NextFinalize]_vars

(***************************************************************************)
(* LineMap._parse_file (src/langkit/gdb/line_map.py): the directives of    *)
(* the generated source file are read line after line.  A line is held by  *)
(* what the method reads of it: whether, once stripped, it starts with     *)
(* "--#", and the chunks the rest splits into (the name, then the          *)
(* arguments if any).                                                      *)
(***************************************************************************)
\* Number of lines of the file at most.
MaxLines == 4

SourceLine(directive, chunks) == [directive |-> directive, chunks |-> chunks]

\* The lines a file is made of.
FileLines ==
    { SourceLine(FALSE, <<>>), SourceLine(TRUE, <<>>),
      SourceLine(TRUE, <<"property-start", "P">>),
      SourceLine(TRUE, <<"property-start">>),
      SourceLine(TRUE, <<"end">>), SourceLine(TRUE, <<"end", "P">>),
      SourceLine(TRUE, <<"scope-start">>) }

\* Directive.name_to_cls, "" standing for a KeyError.
name_to_cls(name) ==
    CASE name = "property-start" -> "PropertyStart"
      [] name = "end" -> "End"
      [] OTHER -> ""

\* ParseError(line_no, message)
ParseError(n, message) == [line_no |-> n, message |-> message]

\* Directive.parse: [err, cls, line_no, name]; PropertyStart.parse keeps the
\* arguments as the name of the property, End.parse drops them.
Directive_parse(n, name, args) ==
    IF name_to_cls(name) = ""
    THEN [err |-> ParseError(n, "invalid directive: " \o name),
          cls |-> "", line_no |-> n, name |-> ""]
    ELSE [err |-> NoParseError, cls |-> name_to_cls(name), line_no |-> n,
          name |-> IF name_to_cls(name) = "PropertyStart" THEN args ELSE ""]

\* Property(LineRange(first_line, None), name); 0 stands for None.
Property(first_line, name) ==
    [name |-> name, label |-> name, first_line |-> first_line,
     last_line |-> 0, subscopes |-> <<>>]

\* The body of _parse_file's loop with a property-start directive pushed
\* whether a property is open or not.
parse_line_nested(line, n, st) ==
    IF ~line.directive THEN st
    ELSE IF Len(line.chunks) = 0
    THEN [st EXCEPT !.parse_error = ParseError(n, "directive name is missing")]
    ELSE IF name_to_cls(line.chunks[1]) = "PropertyStart"
    THEN [st EXCEPT
             !.properties = Append(@, Property(n, "")),
             !.scope_stack = Append(@, Len(st.properties) + 1)]
    ELSE IF name_to_cls(line.chunks[1]) = "End" /\ st.scope_stack # <<>>
    THEN [st EXCEPT
             !.scope_stack = SubSeq(@, 1, Len(@) - 1),
             !.properties[st.scope_stack[Len(st.scope_stack)]].last_line = n]
    ELSE [st EXCEPT !.parse_error = ParseError(n, "no scope to end")]

\* The property-start branch of the loop, d being the directive.
parse_property_start(d, n, st) ==
    IF st.scope_stack # <<>>
    THEN [st EXCEPT !.parse_error =
             ParseError(n, "property-start directive not allowed inside"
                           \o " another property")]
    ELSE [st EXCEPT
             !.properties = Append(@, Property(d.line_no, d.name)),
             !.scope_stack = Append(@, Len(st.properties) + 1)]

\* scope_stack[-1].subscopes.append(ended_scope) when a scope is left open.
append_subscope(props, stack, ended_scope) ==
    IF stack = <<>> THEN props
    ELSE [props EXCEPT ![stack[Len(stack)]].subscopes = Append(@, ended_scope)]

\* The end branch of the loop.  A scope is held in scope_stack by its place
\* in properties, the object being the same in both.
parse_end(d, n, st) ==
    IF st.scope_stack = <<>>
    THEN [st EXCEPT !.parse_error = ParseError(n, "no scope to end")]
    ELSE LET ended_scope == st.scope_stack[Len(st.scope_stack)]
             popped == SubSeq(st.scope_stack, 1, Len(st.scope_stack) - 1)
         IN  [st EXCEPT
                 !.scope_stack = popped,
                 !.properties =
                     append_subscope(
                         [st.properties EXCEPT
                             ![ended_scope].last_line = d.line_no],
                         popped, ended_scope)]

\* The loop once Directive.parse returned d.
parse_directive_then(d, n, st) ==
    IF d.err # NoParseError THEN [st EXCEPT !.parse_error = d.err]
    ELSE IF d.cls = "PropertyStart" THEN parse_property_start(d, n, st)
    ELSE parse_end(d, n, st)

\* The body of _parse_file's loop on the n-th line, on
\* st = [scope_stack, properties, parse_error].
parse_line(line, n, st) ==
    IF ~line.directive THEN st
    ELSE IF Len(line.chunks) = 0
    THEN [st EXCEPT !.parse_error = ParseError(n, "directive name is missing")]
    ELSE parse_directive_then(
             Directive_parse(n, line.chunks[1],
                             IF Len(line.chunks) > 1 THEN line.chunks[2]
                             ELSE ""),
             n, st)

InitLineMap ==
    /\ generate_unparser = TRUE
    /\ InitRegistry
    /\ pc = "parsing"
    /\ operands = <<>>
    /\ combined = [err |-> NoErr, u |-> NoUnparser]
    /\ subjects = <<>>
    /\ at_toplevel = TRUE
    /\ file_lines \in UNION {[1..n -> FileLines] : n \in 0..MaxLines}
    /\ line_no = 0
    /\ scope_stack = <<>>
    /\ properties = <<>>
    /\ parse_error = NoParseError

\* What one step of _parse_file leaves behind, st being the state reached.
Parsed(st, finished) ==
    /\ scope_stack' = st.scope_stack
    /\ properties' = st.properties
    /\ parse_error' = st.parse_error
    /\ pc' = IF st.parse_error # NoParseError THEN "parse_raised"
             ELSE IF finished THEN "parsed" ELSE pc
    /\ UNCHANGED <<registry_vars, operands, combined, instance_vars,
                   function_vars, file_lines>>

\* One iteration of the loop of _parse_file: the next line is read.
ReadLine ==
    /\ pc = "parsing"
    /\ line_no < Len(file_lines)
    /\ line_no' = line_no + 1
    /\ Parsed(parse_line(file_lines[line_no + 1], line_no + 1,
                         [scope_stack |-> scope_stack,
                          properties |-> properties,
                          parse_error |-> parse_error]),
              FALSE)

\* The end of _parse_file, after the last line.
EndOfFile ==
    /\ pc = "parsing"
    /\ line_no = Len(file_lines)
    /\ UNCHANGED line_no
    /\ Parsed([scope_stack |-> scope_stack,
               properties |-> properties,
               parse_error |->
                   IF scope_stack # <<>>
                   THEN ParseError(line_no, "end of scope expected before"
                                            \o " end of file")
                   ELSE parse_error],
              TRUE)

NextLineMap ==
    \/ ReadLine
    \/ EndOfFile

SpecLineMap == InitLineMap /\ [][NextLineMap]_vars

(***************************************************************************)
(* Properties.                                                             *)
(***************************************************************************)
\* Two token sequences are equivalent: same length, equivalent tokens.
SameTokens(a, b) ==
    Len(a) = Len(b) /\ \A i \in 1..Len(a) : equivalent(a[i], b[i])

\* The label of the diagnostic compute raises for a top-level extraction.
TopLevelLossMsg == "Top-level information loss prevents unparsers generation"

\* The occurrences of node type n of the given variant, among those compute
\* derived.
OccurrencesOf(n, variant) ==
    SelectSeq(unparsers[n], LAMBDA u : u.variant = variant)

\* Two List occurrences of n have separators that are not equivalent.
SeparatorsDiffer(n) ==
    \E i, j \in 1..Len(OccurrencesOf(n, "List")) :
        ~equivalent(OccurrencesOf(n, "List")[i].separator,
                    OccurrencesOf(n, "List")[j].separator)

\* The node types compute derived an occurrence for.
Derived == {n \in Nodes : Len(unparsers[n]) > 0}

\* C1: when finalize has run with the generation enabled, a list node type
\* two of whose List occurrences have separators that are not equivalent
\* (two different tokens, or one present and one absent) has no merged
\* unparser stored and a fatal diagnostic was raised; and when the only
\* occurrences are those of one list node type with equivalent separators,
\* nothing is raised.
C1_InconsistentSeparatorIsFatal ==
    \A n \in Nodes :
        (last.op = "finalize" /\ last.gen) =>
            /\ SeparatorsDiffer(n) =>
                   (Fatal(err) /\ node_unparser[n] = NoUnparser)
            /\ (Derived = {n} /\ Len(OccurrencesOf(n, "List")) > 0
                /\ ~SeparatorsDiffer(n)) => err = NoErr

\* Two Regular occurrences of n disagree on the tokens before the first
\* field, between two fields, or after the last field.
PreTokensDiffer(n) ==
    \E i, j \in 1..Len(OccurrencesOf(n, "Regular")) :
        ~SameTokens(OccurrencesOf(n, "Regular")[i].pre_tokens,
                    OccurrencesOf(n, "Regular")[j].pre_tokens)

InterTokensDiffer(n) ==
    \E i, j \in 1..Len(OccurrencesOf(n, "Regular")) :
        \E k \in 1..Len(OccurrencesOf(n, "Regular")[i].inter_tokens) :
            ~SameTokens(OccurrencesOf(n, "Regular")[i].inter_tokens[k],
                        OccurrencesOf(n, "Regular")[j].inter_tokens[k])

PostTokensDiffer(n) ==
    \E i, j \in 1..Len(OccurrencesOf(n, "Regular")) :
        ~SameTokens(OccurrencesOf(n, "Regular")[i].post_tokens,
                    OccurrencesOf(n, "Regular")[j].post_tokens)

\* C2: when finalize has run with the generation enabled, a node type two
\* of whose Regular occurrences have pre_tokens, inter_tokens at one index,
\* or post_tokens that are not equivalent has no merged unparser stored and
\* a fatal diagnostic was raised: a merged result is stored only when all
\* three agree pairwise.
C2_InconsistentTokensAreFatal ==
    \A n \in Nodes :
        (last.op = "finalize" /\ last.gen
         /\ (PreTokensDiffer(n) \/ InterTokensDiffer(n) \/ PostTokensDiffer(n)))
        => (Fatal(err) /\ node_unparser[n] = NoUnparser)

\* The row of the _Extract parser p has the one shape let through at the top
\* level: two elements, the second the termination token.
Whitelisted(p) ==
    /\ Len(Sub(p).kids) = 2
    /\ Sub(p).kids[2].kind = "_Token"
    /\ Sub(p).kids[2].val = Termination

RECURSIVE TopLevelLoss(_)
\* p contains an extraction that is not whitelisted and that is reached at
\* the top level: not beneath a transform, a list or a boolean optional.
TopLevelLoss(p) ==
    IF p.kind \in {"List", "_Transform"} \/ (p.kind = "Opt" /\ Booleanize(p))
    THEN FALSE
    ELSE \/ p.kind = "_Extract" /\ ~Whitelisted(p)
         \/ \E i \in 1..Len(children(p)) : TopLevelLoss(children(p)[i])

C5_FlagStaysCleared ==
    [][generate_unparser = FALSE => generate_unparser' = FALSE]_vars

\* The flag was cleared during the session, abort_unparser was called again
\* while it was false, and check_nodes_to_rules and finalize have run.
C5_Witness ==
    /\ last.op = "finalize"
    /\ ~generate_unparser
    /\ \E i, j \in 1..Len(warnings) :
           /\ i < j
           /\ warnings[i].set = "unparser_bad_grammar"
           /\ warnings[i].extra_info
           /\ warnings[j].set = "unparser_bad_grammar"
           /\ ~warnings[j].extra_info

RECURSIVE Producers(_)
RECURSIVE ProducersOfAll(_, _)
\* The (node type, parser) pairs the walk of p meets, in order: a boolean
\* optional once per alternative of its enum node, a list or a transform
\* for its node type, nothing for an error-recovery Skip parser.
Producers(p) ==
    (IF p.kind = "Opt" /\ Booleanize(p)
     THEN [i \in 1..Len(EnumAlternatives(p.node)) |->
              <<EnumAlternatives(p.node)[i], p>>]
     ELSE IF p.kind \in {"List", "_Transform"} THEN <<(<<get_type(p), p>>)>>
     ELSE <<>>)
    \o ProducersOfAll(children(p), 1)

ProducersOfAll(kids, i) ==
    IF i > Len(kids) THEN <<>>
    ELSE Producers(kids[i]) \o ProducersOfAll(kids, i + 1)

\* The parsers among pairs that are recorded for node type n, in order.
ParsersFor(pairs, n) ==
    [i \in 1..Len(SelectSeq(pairs, LAMBDA pr : pr[1] = n)) |->
        SelectSeq(pairs, LAMBDA pr : pr[1] = n)[i][2]]

\* C6 (as the code has it): once the flag is false, a compute call appends
\* to nodes_to_rules the pairs of the rule's walk (none when the rule was
\* generated for DontSkip: compute skips it), appends nothing to unparsers,
\* fetches no token unparser and raises nothing; check_nodes_to_rules
\* returns without raising, without aborting again and without assigning a
\* canonical parser.
C6_NoDerivationOnceDisabled ==
    [][~generate_unparser =>
        /\ ~generate_unparser'
        /\ last'.op = "compute" =>
               /\ nodes_to_rules' =
                      [n \in Nodes |->
                          nodes_to_rules[n]
                          \o ParsersFor(IF last'.rule.is_dont_skip_parser
                                        THEN <<>>
                                        ELSE Producers(last'.rule), n)]
               /\ unparsers' = unparsers
               /\ token_unparsers' = token_unparsers
               /\ err' = NoErr
        /\ last'.op = "check" =>
               /\ node_parser' = node_parser
               /\ err' = NoErr
               /\ pc' = "checked"
               /\ \A i \in 1..Len(warnings') :
                      warnings'[i].set = "unparser_bad_grammar"
                      => i <= Len(warnings)]_vars

\* C6 as claimed: once the flag is false, a compute call on any rule still
\* records the pairs of the rule's walk, appends nothing to unparsers and
\* raises nothing.
C6_EveryRuleStillRecorded ==
    [][(~generate_unparser /\ last'.op = "compute") =>
        /\ nodes_to_rules' =
               [n \in Nodes |->
                   nodes_to_rules[n] \o ParsersFor(Producers(last'.rule), n)]
        /\ unparsers' = unparsers
        /\ err' = NoErr]_vars

\* The flag was cleared by the first compute call of the session; the second
\* one, on a top-level extraction that is not whitelisted, recorded a node
\* type without deriving it and raised nothing.
C6_Witness ==
    /\ last.op = "compute"
    /\ ~last.gen
    /\ Len(warnings) > 0
    /\ warnings[1].extra_info
    /\ last.rule.kind = "_Extract"
    /\ ~Whitelisted(last.rule)
    /\ ~last.rule.is_dont_skip_parser
    /\ \E n \in Nodes : Len(nodes_to_rules[n]) > Len(unparsers[n])
    /\ err = NoErr

\* The step emits the warning of abort_unparser.
Aborts ==
    /\ Len(warnings') = Len(warnings) + 1
    /\ warnings'[Len(warnings')].set = "unparser_bad_grammar"

\* C7 (as the code has it): a compute call soft-aborts (warning, flag false
\* afterwards, nothing raised) exactly when the walk raised nothing, the
\* rule was not generated for DontSkip and its root does not satisfy
\* creates_node; by then every pair of the rule's walk is recorded and, if
\* the generation was enabled on entry, derived.  In every other case the
\* flag and the warnings are left as they were.
C7_SoftAbortAfterWalk ==
    [][last'.op = "compute" =>
        /\ Aborts <=> (/\ err' = NoErr
                       /\ ~last'.rule.is_dont_skip_parser
                       /\ ~creates_node(last'.rule))
        /\ Aborts =>
               /\ ~generate_unparser'
               /\ \A n \in Nodes :
                      /\ nodes_to_rules'[n] =
                             nodes_to_rules[n]
                             \o ParsersFor(Producers(last'.rule), n)
                      /\ generate_unparser =>
                             Len(unparsers'[n]) =
                                 Len(unparsers[n])
                                 + Len(ParsersFor(Producers(last'.rule), n))
        /\ ~Aborts => (/\ generate_unparser' = generate_unparser
                       /\ warnings' = warnings)]_vars

\* C7 as claimed: a compute call that raises nothing soft-aborts exactly
\* when the root of its rule does not satisfy creates_node.
C7_AbortsIffRootCreatesNoNode ==
    [][last'.op = "compute" =>
        (Aborts <=> (err' = NoErr /\ ~creates_node(last'.rule)))]_vars

\* A compute call entered with the generation enabled recorded and derived
\* a node type of its rule, then cleared the flag because the rule's root
\* does not create a node.
C7_Witness ==
    /\ last.op = "compute"
    /\ last.gen
    /\ ~generate_unparser
    /\ ~creates_node(last.rule)
    /\ ~last.rule.is_dont_skip_parser
    /\ \E n \in Nodes : Len(unparsers[n]) > 0
    /\ err = NoErr

\* The operands finalize folds: those that are not Null.
Folded == SelectSeq(operands, LAMBDA u : u.variant # "Null")

\* Two of the folded occurrences have field f not always absent, with
\* prefix or postfix tokens that are not equivalent.
FieldTokensDiffer(f) ==
    \E i, j \in 1..Len(Folded) :
        /\ ~Folded[i].field_unparsers[f].always_absent
        /\ ~Folded[j].field_unparsers[f].always_absent
        /\ \/ ~SameTokens(Folded[i].field_unparsers[f].pre_tokens,
                          Folded[j].field_unparsers[f].pre_tokens)
           \/ ~SameTokens(Folded[i].field_unparsers[f].post_tokens,
                          Folded[j].field_unparsers[f].post_tokens)

\* The diagnostic e names the parse field f of node type n.
NamesField(e, n, f) ==
    e \in {"Inconsistent prefix tokens for " \o qualname(n, f),
           "Inconsistent postfix tokens for " \o qualname(n, f)}

\* C8: when the fold of the non-null Regular occurrences of a node type
\* succeeds, each merged field is always_absent iff it is always_absent in
\* every folded occurrence, and otherwise carries the prefix and postfix
\* tokens of an occurrence where it is not always absent; the fold raises a
\* fatal diagnostic when two occurrences where the field is not always
\* absent disagree on these tokens.  Merging the field unparsers of two
\* occurrences raises nothing and returns the other one when one is always
\* absent, and when neither is, returns the first if their tokens are
\* equivalent and raises a fatal diagnostic naming the field if not.
C8_FieldMerge ==
    /\ (pc = "folded" /\ Len(Folded) > 0 /\ Folded[1].variant = "Regular") =>
           \A f \in 1..Len(Folded[1].field_unparsers) :
               /\ FieldTokensDiffer(f) => Fatal(combined.err)
               /\ combined.err = NoErr =>
                      /\ combined.u.field_unparsers[f].always_absent
                           <=> \A i \in 1..Len(Folded) :
                                   Folded[i].field_unparsers[f].always_absent
                      /\ ~combined.u.field_unparsers[f].always_absent =>
                             \E i \in 1..Len(Folded) :
                                 /\ ~Folded[i].field_unparsers[f].always_absent
                                 /\ combined.u.field_unparsers[f] =
                                        Folded[i].field_unparsers[f]
    /\ pc = "field_combined" =>
           LET self == operands[1].field_unparsers[combined.u.field]
               other == operands[2].field_unparsers[combined.u.field]
           IN  /\ self.always_absent =>
                      combined = [err |-> NoErr, u |-> other]
               /\ (~self.always_absent /\ other.always_absent) =>
                      combined = [err |-> NoErr, u |-> self]
               /\ (~self.always_absent /\ ~other.always_absent) =>
                      IF /\ SameTokens(self.pre_tokens, other.pre_tokens)
                         /\ SameTokens(self.post_tokens, other.post_tokens)
                      THEN combined = [err |-> NoErr, u |-> self]
                      ELSE NamesField(combined.err, self.node, self.field)

\* Three occurrences were folded without error: in the first the field is
\* always absent, the second gives it a prefix token, which the merged
\* field carries.
C8_Witness ==
    /\ pc = "folded"
    /\ Len(operands) = 3
    /\ \A i \in 1..3 : operands[i].variant = "Regular"
    /\ Len(operands[1].field_unparsers) = 1
    /\ operands[1].field_unparsers[1].always_absent
    /\ ~operands[2].field_unparsers[1].always_absent
    /\ operands[2].field_unparsers[1].pre_tokens # <<>>
    /\ ~operands[3].field_unparsers[1].always_absent
    /\ combined.err = NoErr
    /\ combined.u.field_unparsers[1] = operands[2].field_unparsers[1]

\* C9 (as the code has it): combine called on a Regular, List or TokenNode
\* unparser and a Null unparser of the same node type, in either order,
\* fails the assertion on the operands' classes and returns nothing.  Null
\* occurrences are neutral in finalize's fold only, which drops them before
\* combining: folding one non-null occurrence x and any number of Null
\* ones, in any order, gives x without error.
C9_NullIsDroppedNotCombined ==
    /\ (pc = "combined"
        /\ (operands[1].variant = "Null") # (operands[2].variant = "Null"))
       => combined.err = AssertionError
    /\ (pc = "folded" /\ Len(Folded) = 1)
       => combined = [err |-> NoErr, u |-> Folded[1]]

\* C9 as claimed: combine called on a non-null unparser x and a Null
\* unparser of the same node type raises nothing and returns x.
C9_CombineWithNullIsIdentity ==
    (pc = "combined" /\ operands[1].variant # "Null"
     /\ operands[2].variant = "Null"
     /\ operands[1].node = operands[2].node)
    => combined = [err |-> NoErr, u |-> operands[1]]

\* combine was called on a Regular unparser with tokens and a field, and on
\* the Null unparser of the same node type.
C9_Witness ==
    /\ pc = "combined"
    /\ operands[1].variant = "Regular"
    /\ operands[1].pre_tokens # <<>>
    /\ Len(operands[1].field_unparsers) > 0
    /\ operands[2].variant = "Null"
    /\ operands[2].node = operands[1].node
    /\ combined.err = AssertionError

RECURSIVE ContainsNull(_)
\* The parser p is a Null parser or holds one at some depth of its children.
ContainsNull(p) ==
    IF p.kind = "Null" THEN TRUE
    ELSE LET n == Len(p.kids)
         IN  n > 0 /\ ~(\A i \in 1..n : ~ContainsNull(p.kids[i]))

\* The positions of the producers recorded for n that hold no Null parser.
WithoutNull(n) ==
    {i \in 1..Len(nodes_to_rules[n]) : ~ContainsNull(nodes_to_rules[n][i])}

\* C11: the canonical parser assigned to a node type is the first of its
\* recorded producers, in encounter order, that holds no Null parser at any
\* depth; when every recorded producer holds one, it is the first recorded
\* producer.
C11_CanonicalIsFirstWithoutNull ==
    \A n \in Nodes :
        node_parser[n] # NoParser =>
            IF WithoutNull(n) # {}
            THEN \E i \in WithoutNull(n) :
                     /\ \A j \in WithoutNull(n) : i <= j
                     /\ node_parser[n] = nodes_to_rules[n][i]
            ELSE node_parser[n] = nodes_to_rules[n][1]

\* A node type recorded first from a producer holding a Null parser and then
\* from one holding none got the second as its canonical parser.
C11_Witness ==
    \E n \in Nodes :
        /\ Len(nodes_to_rules[n]) = 2
        /\ ContainsNull(nodes_to_rules[n][1])
        /\ ~ContainsNull(nodes_to_rules[n][2])
        /\ nodes_to_rules[n][1] # nodes_to_rules[n][2]
        /\ node_parser[n] = nodes_to_rules[n][2]


\* The node type n is concrete, is not an automatically derived base list
\* type and has no recorded producer.
Unused(n) ==
    /\ n \notin {m \in Nodes : nodes_to_rules[m] # <<>>}
    /\ ~abstract(n)
    /\ ~synthetic(n)
    /\ ~(is_list_type(n) /\ is_base_list(n))

\* The number of "unused node type" warnings about n the step emits.
UnusedWarnings(n) ==
    Cardinality({i \in (Len(warnings) + 1)..Len(warnings') :
                     /\ warnings'[i].set = "unused_node_type"
                     /\ warnings'[i].about = n})

\* C12: check_nodes_to_rules emits exactly one "unused node type" warning for
\* each node type that is non-abstract, non-synthetic, not a base list type
\* and absent from nodes_to_rules, and none for any other node type, whether
\* or not the generation is enabled; it raises no fatal diagnostic, and the
\* flag changes only together with the warning of a soft abort.
C12_OneWarningPerUnusedNodeType ==
    [][last'.op = "check" =>
        /\ \A n \in Nodes : UnusedWarnings(n) = IF Unused(n) THEN 1 ELSE 0
        /\ SubSeq(warnings', 1, Len(warnings)) = warnings
        /\ ~Fatal(err')
        /\ UNCHANGED nodes_to_rules
        /\ generate_unparser' # generate_unparser =>
               warnings'[Len(warnings')].set = "unparser_bad_grammar"
        /\ ~generate_unparser =>
               /\ ~generate_unparser'
               /\ \A i \in (Len(warnings) + 1)..Len(warnings') :
                      warnings'[i].set = "unused_node_type"]_vars

\* A check run with the generation disabled warned about a concrete node
\* type without producer, and about no node type with one.
C12_Witness ==
    /\ last.op = "check"
    /\ ~last.gen
    /\ \E n \in Nodes : nodes_to_rules[n] # <<>>
    /\ \E i \in 1..Len(warnings) :
           /\ warnings[i].set = "unused_node_type"
           /\ warnings[i].about = "U"
    /\ \A i \in 1..Len(warnings) :
           warnings[i].set = "unused_node_type" =>
               /\ nodes_to_rules[warnings[i].about] = <<>>
               /\ warnings[i].about # "EList"
    /\ err = NoErr


\* The occurrences of n are those derived from the first producers recorded
\* for n, one each, in the same order.
DerivedFromPrefix(n) ==
    /\ Len(unparsers[n]) <= Len(nodes_to_rules[n])
    /\ \A i \in 1..Len(unparsers[n]) :
           /\ from_parser(n, nodes_to_rules[n][i]).err = NoErr
           /\ unparsers[n][i] = from_parser(n, nodes_to_rules[n][i]).u

\* C13 (as the code has it): for every node type the occurrences are derived,
\* in order, from the first recorded producers; the two tables have the same
\* lengths as long as every compute call ran with the generation enabled and
\* none raised.  A compute call run with the generation disabled records
\* producers without occurrences, and a derivation that raises leaves its
\* producer recorded without an occurrence.
C13_ParallelWhileEnabled ==
    /\ \A n \in Nodes : DerivedFromPrefix(n)
    /\ ((generate_unparser \/ (last.op = "compute" /\ last.gen))
        /\ pc # "raised")
       => \A n \in Nodes : Len(unparsers[n]) = Len(nodes_to_rules[n])
    /\ (last.op = "compute" /\ ~last.gen /\ ~last.rule.is_dont_skip_parser)
       => \A n \in Nodes :
              ParsersFor(Producers(last.rule), n) # <<>> =>
                  Len(unparsers[n]) < Len(nodes_to_rules[n])

\* C13 as claimed: in every reachable state the two tables are parallel.
C13_AlwaysParallel ==
    \A n \in Nodes :
        /\ Len(unparsers[n]) = Len(nodes_to_rules[n])
        /\ DerivedFromPrefix(n)

\* Two compute calls run with the generation enabled recorded two different
\* producers of one node type, with two different occurrences in the same
\* order.
C13_Witness ==
    /\ last.op = "compute"
    /\ generate_unparser
    /\ \E n \in Nodes :
           /\ Len(nodes_to_rules[n]) = 2
           /\ Len(unparsers[n]) = 2
           /\ unparsers[n][1] # unparsers[n][2]
           /\ unparsers[n][2] = from_parser(n, nodes_to_rules[n][2]).u


\* The token sequences of the final unparser u by structural position: the
\* prefix tokens, then for each field its prefix tokens, its postfix tokens
\* and the tokens between the previous field and it (an empty sequence for
\* the first field), then the postfix tokens.  Nothing for the other kinds.
SequencesOf(u) ==
    IF u.variant # "Regular" THEN <<>>
    ELSE [k \in 1..(3 * Len(u.field_unparsers) + 2) |->
             IF k = 1 THEN u.pre_tokens
             ELSE IF k = 3 * Len(u.field_unparsers) + 2 THEN u.post_tokens
             ELSE IF k % 3 = 2 THEN u.field_unparsers[(k + 1) \div 3].pre_tokens
             ELSE IF k % 3 = 0 THEN u.field_unparsers[k \div 3].post_tokens
             ELSE IF k = 4 THEN <<>>
             ELSE u.inter_tokens[((k - 1) \div 3) - 1]]

RECURSIVE FinalSequences(_)
\* The token sequences of the final unparsers of the first i node types.
FinalSequences(i) ==
    IF i = 0 THEN <<>>
    ELSE FinalSequences(i - 1) \o SequencesOf(node_unparser[astnode_types[i]])

\* C14 (as the code has it): token_sequence_unparsers is empty until finalize
\* runs; from then on it lists the token sequences of every final unparser
\* stored, in node-type iteration order then structural position, each
\* position once: nothing is deduplicated, and the sequence zip_fields
\* creates before the first field is listed too.
C14_EverySequenceInOrder ==
    /\ token_sequence_unparsers = FinalSequences(Len(astnode_types))
    /\ last.op # "finalize" =>
           /\ token_sequence_unparsers = <<>>
           /\ \A n \in Nodes : node_unparser[n] = NoUnparser

\* C14 as claimed: after finalize no two entries of the table are equivalent
\* sequences.
C14_EachDistinctSequenceOnce ==
    /\ last.op # "finalize" => token_sequence_unparsers = <<>>
    /\ last.op = "finalize" =>
           \A i, j \in 1..Len(token_sequence_unparsers) :
               i # j => ~SameTokens(token_sequence_unparsers[i],
                                    token_sequence_unparsers[j])

\* finalize stored the final unparsers of two node types and listed the
\* sequences of both, equivalent ones more than once.
C14_Witness ==
    /\ pc = "finalized"
    /\ node_unparser["A"].variant = "Regular"
    /\ node_unparser["B"].variant = "Regular"
    /\ Len(token_sequence_unparsers) = 13
    /\ token_sequence_unparsers[1] # <<>>
    /\ token_sequence_unparsers[10] # <<>>
    /\ token_sequence_unparsers[6] = token_sequence_unparsers[7]


\* The identity of a token unparser: its token kind and its literal text,
\* "" when it has none.
Identity(t) == <<t.token, t.match_text>>

\* The identity a _Token parser asks for.
IdentityOf(parser) == <<parser.val, parser.text>>

\* The token unparsers the dict holds.
Cached == {token_unparsers_by_key[k] : k \in DOMAIN token_unparsers_by_key}

\* C15: the dict holds at most one TokenUnparser per identity (token kind,
\* literal text or none) and no other TokenUnparser was ever created; two
\* requests with the same identity return the same object, which has that
\* identity; and every TokenUnparser put in a token sequence or taken as a
\* list separator is an entry of the dict.
C15_TokenUnparsersAreDeduplicated ==
    /\ \A i, j \in 1..Len(token_instances) :
           Identity(token_instances[i]) = Identity(token_instances[j])
               => i = j
    /\ Cached = 1..Len(token_instances)
    /\ \A i, j \in 1..Len(requests) :
           (/\ requests[i].err = NoErr
            /\ requests[j].err = NoErr
            /\ requests[i].parser # NoParser
            /\ requests[j].parser # NoParser
            /\ IdentityOf(requests[i].parser) = IdentityOf(requests[j].parser))
           => requests[i].result = requests[j].result
    /\ \A i \in 1..Len(requests) :
           (requests[i].err = NoErr /\ requests[i].parser # NoParser)
           => /\ requests[i].result \in Cached
              /\ Identity(token_instances[requests[i].result]) =
                     IdentityOf(requests[i].parser)
    /\ \A i \in 1..Len(token_sequence) : token_sequence[i] \in Cached
    /\ list_separator # 0 => list_separator \in Cached

\* The same token was requested for a token sequence twice and as a list
\* separator, next to another token of the same kind, and the dict holds one
\* unparser for each of the two.
C15_Witness ==
    /\ Len(token_sequence) = 3
    /\ token_sequence[1] = token_sequence[3]
    /\ token_sequence[1] # token_sequence[2]
    /\ token_instances[token_sequence[1]].token =
           token_instances[token_sequence[2]].token
    /\ Len(token_instances) = 2


\* The i-th parser obtained satisfies creates_node, and the next one is that
\* parser inside a wrapper of one of the kinds.
WrapsCreator(i, kinds) ==
    /\ i + 1 <= Len(verdicts)
    /\ verdicts[i]
    /\ subjects[i + 1].kind \in kinds

\* C16 (as the code has it): a parser that satisfies creates_node still does
\* once wrapped in an optional or in a predicate, and the verdict of a
\* predicate is the verdict of what it wraps; wrapped in a DontSkip parser
\* it does not: creates_node is false of every DontSkip parser.
C16_MonotoneUnderOptAndPredicate ==
    \A i \in 1..Len(verdicts) :
        /\ WrapsCreator(i, {"Opt", "Predicate"}) => verdicts[i + 1]
        /\ (i > 1 /\ subjects[i].kind = "Predicate")
               => verdicts[i] = verdicts[i - 1]
        /\ subjects[i].kind = "DontSkip" => ~verdicts[i]

\* C16 as claimed: a parser that satisfies creates_node still does once
\* wrapped in an optional, a predicate or a DontSkip parser.
C16_MonotoneUnderEveryWrapper ==
    \A i \in 1..Len(verdicts) :
        WrapsCreator(i, {"Opt", "Predicate", "DontSkip"}) => verdicts[i + 1]

\* A parser that creates a node was wrapped in a predicate and then in an
\* optional that is not boolean, and creates_node held each time.
C16_Witness ==
    /\ Len(verdicts) = 3
    /\ verdicts[1]
    /\ subjects[2].kind = "Predicate"
    /\ subjects[3].kind = "Opt"
    /\ ~Booleanize(subjects[3])
    /\ verdicts[3]


\* The parsers of ps that are compared: the Null parsers are left out and
\* the DontSkip parsers replaced by what they wrap.
Compared(ps) ==
    LET kept == SelectSeq(ps, LAMBDA p : p.kind # "Null")
    IN  [i \in 1..Len(kept) |->
            IF kept[i].kind = "DontSkip" THEN kept[i].kids[1] ELSE kept[i]]

\* The children of p that take a slot: all but the NoBacktrack markers.
Slots(p) == SelectSeq(p.kids, LAMBDA c : c.kind # "NoBacktrack")

RECURSIVE TokenSlotDiffers(_, _)
\* The compared parsers of ps are of one kind and of one shape down to a
\* slot where all hold a token match and two of them differ: by the token
\* kind, or also, when with_text is set, by the literal text only.
TokenSlotDiffers(ps, with_text) ==
    LET c == Compared(ps)
    IN  /\ Len(c) >= 2
        /\ \A i \in 1..Len(c) : c[i].kind = c[1].kind
        /\ CASE c[1].kind = "_Token" ->
                    \E i, j \in 1..Len(c) :
                        \/ c[i].val # c[j].val
                        \/ with_text /\ c[i].text # c[j].text
             [] c[1].kind \in {"_Row", "_Transform", "List", "Opt"} ->
                    /\ \A i \in 1..Len(c) : Len(Slots(c[i])) = Len(Slots(c[1]))
                    /\ \E k \in 1..Len(Slots(c[1])) :
                           TokenSlotDiffers([i \in 1..Len(c) |-> Slots(c[i])[k]],
                                            with_text)
             [] c[1].kind = "_Extract" ->
                    TokenSlotDiffers([i \in 1..Len(c) |-> c[i].kids[1]],
                                     with_text)
             [] OTHER -> FALSE

\* C17 (as the code has it): unparser_struct_eq returns true for a list of
\* one parser that is not a Null parser, and never returns true when the
\* compared parsers hold, in the same slot, token matches of different token
\* kinds (it returns false, unless the comparison of an earlier slot raises
\* NotImplementedError).  The literal text is not compared: token matches of
\* one token kind are equal whatever their literal texts.
C17_SingletonEqualAndTokenKindsCompared ==
    verdicts # <<>> =>
        /\ (Len(subjects) = 1 /\ subjects[1].kind # "Null")
               => verdicts[1] = "True"
        /\ TokenSlotDiffers(subjects, FALSE)
               => verdicts[1] \in {"False", NotImplementedError}
        /\ (TokenSlotDiffers(subjects, FALSE) /\ Compared(subjects)[1].kind
                \in {"_Token", "List"})
               => verdicts[1] = "False"
        /\ (/\ Len(Compared(subjects)) >= 1
            /\ \A i \in 1..Len(Compared(subjects)) :
                   /\ Compared(subjects)[i].kind = "_Token"
                   /\ Compared(subjects)[i].val = Compared(subjects)[1].val)
               => verdicts[1] = "True"

\* C17 as claimed: unparser_struct_eq returns true for every list of one
\* parser, and returns false when the compared parsers hold, in the same
\* slot, token matches that differ by the token kind or by the literal text.
C17_SingletonEqualAndTokenIdentitiesCompared ==
    verdicts # <<>> =>
        /\ Len(subjects) = 1 => verdicts[1] = "True"
        /\ TokenSlotDiffers(subjects, TRUE) => verdicts[1] = "False"

\* Two transforms of one node type that differ by the kind of a token in the
\* same slot were compared at top level, and found not equal.
C17_Witness ==
    /\ verdicts = <<"False">>
    /\ at_toplevel
    /\ Len(subjects) = 2
    /\ subjects[1].kind = "_Transform"
    /\ TokenSlotDiffers(subjects, FALSE)


\* The parsers of ps left once the DontSkip parsers are replaced by what they
\* wrap and the Null parsers then discarded.
Remaining(ps) ==
    SelectSeq([i \in 1..Len(ps) |->
                  IF ps[i].kind = "DontSkip" THEN ps[i].kids[1] ELSE ps[i]],
              LAMBDA p : p.kind # "Null")

RECURSIVE FixedTokens(_)
\* The token unparsers of the tokens a discarded sub-parser matches, in
\* order: a token, a row of such parsers, an error-recovery optional; a
\* NoBacktrack marker matches none.
FixedTokens(p) ==
    CASE p.kind = "_Token" -> <<[token |-> p.val, match_text |-> p.text]>>
      [] p.kind = "DontSkip" -> FixedTokens(p.kids[1])
      [] p.kind = "Opt" -> FixedTokens(p.kids[1])
      [] p.kind = "_Row" /\ Len(p.kids) > 0 ->
            FixedTokens(p.kids[1]) \o FixedTokens(Row(Tail(p.kids)))
      [] OTHER -> <<>>

\* The positions in row of the field sub-parsers, in order.
FieldPositions(row) ==
    SelectSeq([k \in 1..Len(row) |-> k], LAMBDA k : ~discard(row[k]))

\* The tokens of the discarded sub-parsers of row at positions from..to.
TokensAt(row, from, to) ==
    FixedTokens(Row(SubSeq(row, from, to)))

\* The Regular unparser u places the tokens of row in row order: before the
\* first field in pre_tokens, between two fields in the inter_tokens of that
\* gap, after the last field in post_tokens.
PlacedInRowOrder(u, row) ==
    LET pos == FieldPositions(row)
        nf == Len(pos)
    IN  /\ u.variant = "Regular"
        /\ Len(u.field_unparsers) = nf
        /\ Len(u.inter_tokens) = IF nf = 0 THEN 0 ELSE nf - 1
        /\ u.pre_tokens =
               TokensAt(row, 1, IF nf = 0 THEN Len(row) ELSE pos[1] - 1)
        /\ \A j \in 1..(nf - 1) :
               u.inter_tokens[j] = TokensAt(row, pos[j] + 1, pos[j + 1] - 1)
        /\ u.post_tokens =
               IF nf = 0 THEN <<>> ELSE TokensAt(row, pos[nf] + 1, Len(row))

RegularUnparsers ==
    {RegularNodeUnparser(n) : n \in Nodes}
    \cup {operands[i] : i \in {j \in 1..Len(operands) :
                                  operands[j].variant = "Regular"}}
    \cup (IF pc \in {"combined", "folded"} /\ combined.err = NoErr
             /\ combined.u.variant = "Regular"
          THEN {combined.u} ELSE {})

\* u has one field unparser per declared field of its node type, in
\* declaration order.
OneFieldUnparserPerField(u) ==
    /\ Len(u.field_unparsers) = NumFields(u.node)
    /\ \A i \in 1..Len(u.field_unparsers) :
           /\ u.field_unparsers[i].node = u.node
           /\ u.field_unparsers[i].field = i

\* C20 (as the code has it): every Regular unparser, constructed, derived or
\* returned by combine, has one FieldUnparser per declared field of its node
\* type, in declaration order, and len(fields)-1 inter_tokens sequences when
\* the node type has fields, none when it has no field.
C20_FieldsAndGaps ==
    \A u \in RegularUnparsers :
        /\ OneFieldUnparserPerField(u)
        /\ Len(u.inter_tokens) =
               IF NumFields(u.node) = 0 THEN 0 ELSE NumFields(u.node) - 1

\* C20 as claimed: every Regular unparser has one FieldUnparser per declared
\* field and exactly len(fields)-1 inter_tokens sequences.
C20_ExactlyFieldsMinusOneGaps ==
    \A u \in RegularUnparsers :
        /\ OneFieldUnparserPerField(u)
        /\ Len(u.inter_tokens) = NumFields(u.node) - 1

\* The fold of finalize returned the Regular unparser of a node type with two
\* fields, combined from two derived occurrences.
C20_Witness ==
    /\ pc = "folded"
    /\ combined.err = NoErr
    /\ Len(operands) >= 2
    /\ operands[1] # operands[2]
    /\ combined.u.variant = "Regular"
    /\ NumFields(combined.u.node) = 2
    /\ Len(combined.u.inter_tokens) = 1
    /\ combined.u.inter_tokens[1] # <<>>


(***************************************************************************)
(* C21  always_absent after the analysis of one field sub-parser.          *)
(***************************************************************************)
\* The kinds of sub-parser _emit_to_field_unparser has a branch for.
AcceptedFieldKinds ==
    {"Defer", "List", "Null", "_Transform", "Opt", "Or", "_Extract"}

UnsupportedFieldMsg == "Unsupported parser for node field"

StaticTokensMsg == "Static sequence of tokens expected"

\* The siblings of the element an _Extract parser extracts: before, after.
LeadingSiblings(p) == SubSeq(Sub(p).kids, 1, p.idx - 1)

TrailingSiblings(p) == SubSeq(Sub(p).kids, p.idx + 1, Len(Sub(p).kids))

Siblings(p) == LeadingSiblings(p) \o TrailingSiblings(p)

RECURSIVE StaticTokens(_)
\* The parser matches a constant sequence of tokens: a token, a row or an
\* error-recovery optional of such parsers, a NoBacktrack marker, either
\* inside one DontSkip or not.
StaticTokens(p) ==
    LET q == IF p.kind = "DontSkip" THEN p.kids[1] ELSE p IN
    CASE q.kind = "_Token" -> TRUE
      [] q.kind = "_Row" -> \A k \in 1..Len(q.kids) : StaticTokens(q.kids[k])
      [] q.kind = "Opt" -> q.mode = "error" /\ StaticTokens(q.kids[1])
      [] q.kind \in {"NoBacktrack", "DontSkip"} -> TRUE
      [] OTHER -> FALSE

\* The i-th parser analysed is an extraction around the (i-1)-th.
ExtractionAt(i) ==
    /\ pc = "fields"
    /\ i \in 2..Len(verdicts)
    /\ subjects[i].kind = "_Extract"

\* What the analysis of the i-th parser, an extraction, adds to that of the
\* parser it extracts: the tokens of the leading siblings in front of
\* pre_tokens, those of the trailing siblings behind post_tokens.
AccumulatesAt(i) ==
    LET p == subjects[i]
        outer == verdicts[i]
        inner == verdicts[i - 1]
    IN  outer.err = NoErr =>
            /\ inner.err = NoErr
            /\ ~outer.fu.always_absent
            /\ outer.fu.pre_tokens =
                   FixedTokens(Row(LeadingSiblings(p))) \o inner.fu.pre_tokens
            /\ outer.fu.post_tokens =
                   inner.fu.post_tokens \o FixedTokens(Row(TrailingSiblings(p)))

\* C22 (as the code has it): across nested extractions the field's
\* pre_tokens is the concatenation of the leading token runs, outermost
\* first, and its post_tokens that of the trailing token runs, innermost
\* first; the diagnostic "Static sequence of tokens expected" is raised when
\* a sibling of the extracted element is no constant sequence of tokens,
\* where a row or an error-recovery optional of tokens is one and a
\* NoBacktrack marker an empty one; with such siblings only, the analysis
\* raises what the analysis of the extracted element raises.
C22_AccumulatesInSourceOrder ==
    \A i \in 1..Len(verdicts) :
        ExtractionAt(i) =>
            LET p == subjects[i] IN
            /\ AccumulatesAt(i)
            /\ (\E k \in 1..Len(Siblings(p)) : ~StaticTokens(Siblings(p)[k]))
                   => verdicts[i].err = StaticTokensMsg
            /\ (\A k \in 1..Len(Siblings(p)) : StaticTokens(Siblings(p)[k]))
                   => verdicts[i].err = verdicts[i - 1].err

\* C22 as claimed: the same accumulation, and a fatal diagnostic whenever a
\* sibling of the extracted element is not a token parser.
C22_NonTokenSiblingIsFatal ==
    \A i \in 1..Len(verdicts) :
        ExtractionAt(i) =>
            /\ AccumulatesAt(i)
            /\ (\E k \in 1..Len(Siblings(subjects[i])) :
                    unwrap_dont_skip(Siblings(subjects[i])[k]).kind # "_Token")
                   => Fatal(verdicts[i].err)

\* Two nested extractions, each with tokens on both sides, were analysed:
\* the outer leading tokens come first in pre_tokens and the inner trailing
\* tokens first in post_tokens.
C22_Witness ==
    /\ pc = "fields"
    /\ Len(verdicts) = 3
    /\ subjects[2].kind = "_Extract"
    /\ subjects[3].kind = "_Extract"
    /\ verdicts[3].err = NoErr
    /\ LeadingSiblings(subjects[3]) = <<tLPar>>
    /\ LeadingSiblings(subjects[2]) = <<tIdA, tComma>>
    /\ TrailingSiblings(subjects[3]) = <<tLPar>>
    /\ TrailingSiblings(subjects[2]) = <<Row(<<tRPar, tSemi>>)>>
    /\ Len(verdicts[3].fu.pre_tokens) = 3
    /\ verdicts[3].fu.pre_tokens[1] = [token |-> "LPar", match_text |-> ""]
    /\ Len(verdicts[3].fu.post_tokens) = 3
    /\ verdicts[3].fu.post_tokens[3] = [token |-> "LPar", match_text |-> ""]


(***************************************************************************)
(* C23  The unparser of a token node.                                      *)
(***************************************************************************)
UnsupportedTokenNodeMsg == "Unsupported token node parser"

\* The parser is a _Transform whose row is exactly one token parser.
WrapsOneToken(p) ==
    /\ p.kind = "_Transform"
    /\ Len(Sub(p).kids) = 1
    /\ Sub(p).kids[1].kind = "_Token"

\* C23: from_parser for a token node returns a TokenNode unparser only when
\* the parser is a _Transform wrapping exactly one token parser; every other
\* parser, a _Transform of no or of several tokens included, raises the
\* diagnostic "Unsupported token node parser".
C23_TokenNodeOnlyFromOneToken ==
    \A i \in 1..Len(verdicts) :
        pc = "token_nodes" =>
            IF WrapsOneToken(unwrap_dont_skip(subjects[i]))
            THEN verdicts[i].err = NoErr
                 /\ verdicts[i].u.variant = "TokenNode"
            ELSE verdicts[i].err = UnsupportedTokenNodeMsg

\* A TokenNode unparser was derived without a diagnostic from a _Transform
\* whose row holds two token parsers.
C23_Witness ==
    /\ pc = "token_nodes"
    /\ \E i \in 1..Len(verdicts) :
          /\ subjects[i] = Transform("T", <<tIdA, tIdB>>)
          /\ verdicts[i].err = NoErr
          /\ verdicts[i].u = TokenNodeUnparser("T")


(***************************************************************************)
(* C24  The fallback of unparser_struct_eq.                                *)
(***************************************************************************)
\* The parsers ps are left to the fallback: there are several of them and
\* they are all Or parsers, all Defer parsers, or of more than one kind.
LeftToFallback(ps) ==
    /\ Len(ps) >= 2
    /\ \/ \A i \in 1..Len(ps) : ps[i].kind = "Or"
       \/ \A i \in 1..Len(ps) : ps[i].kind = "Defer"
       \/ \E i, j \in 1..Len(ps) : ps[i].kind # ps[j].kind

\* The parser a Defer parser refers to, any other parser itself.
Resolved(p) == IF p.kind = "Defer" THEN ResolveDefer(p.ref) ELSE p

\* C24: when the parsers compared are Or parsers, Defer parsers or parsers of
\* differing kinds, unparser_struct_eq returns False at top level whatever
\* they hold, and at nested level returns True iff creates_node holds of
\* every one of them, a Defer parser being replaced by the parser it refers
\* to.
C24_FallbackOnCreatesNode ==
    (pc = "struct_eq" /\ verdicts # <<>> /\ LeftToFallback(Compared(subjects)))
        => verdicts[1] =
               IF at_toplevel THEN "False"
               ELSE IF \A i \in 1..Len(Compared(subjects)) :
                           creates_node(Resolved(Compared(subjects)[i]))
                    THEN "True" ELSE "False"

\* At nested level a Defer parser whose rule creates no node was compared
\* with a parser of another kind that creates one: not equal.
C24_Witness ==
    /\ pc = "struct_eq"
    /\ ~at_toplevel
    /\ subjects = <<Defer("x"), xA>>
    /\ creates_node(Defer("x"))
    /\ ~creates_node(ResolveDefer("x"))
    /\ verdicts = <<"False">>


(***************************************************************************)
(* C25  What finalize stores on each node type.                            *)
(***************************************************************************)
\* The recorded occurrences of n that are not Null unparsers.
NonNull(n) == SelectSeq(unparsers[n], LAMBDA u : u.variant # "Null")

RECURSIVE FoldLeft(_, _)
\* The fold of rest into acc = [err, u] with combine, from the left; the
\* first exception ends it.
FoldLeft(acc, rest) ==
    IF rest = <<>> \/ acc.err # NoErr THEN acc
    ELSE FoldLeft(combine(acc.u, Head(rest)), Tail(rest))

\* The fold of the occurrences of n that are not Null (there is one).
FoldOf(n) == FoldLeft([err |-> NoErr, u |-> Head(NonNull(n))], Tail(NonNull(n)))

\* finalize raises on the node type n.
FailsOn(n) ==
    /\ Len(unparsers[n]) > 0
    /\ (NonNull(n) = <<>> \/ FoldOf(n).err # NoErr)

\* finalize gets to the i-th node type: it raised on none before.
Reaches(i) == \A j \in 1..(i - 1) : ~FailsOn(astnode_types[j])

\* C25: finalize skips a node type without recorded occurrence, fails on an
\* assertion for a node type whose recorded occurrences are all Null, and
\* for any other node type stores the fold, from the left, of its
\* occurrences that are not Null, whose variant (Regular, List or TokenNode)
\* is that of every occurrence folded; an exception raised by the fold ends
\* finalize with nothing stored on that node type.
C25_FinalizeStoresTheFold ==
    last.op = "finalize" =>
        \A i \in 1..Len(astnode_types) :
            LET n == astnode_types[i] IN
            Reaches(i) =>
                /\ Len(unparsers[n]) = 0 => node_unparser[n] = NoUnparser
                /\ (Len(unparsers[n]) > 0 /\ NonNull(n) = <<>>)
                       => /\ err = AssertionError
                          /\ pc = "raised"
                          /\ node_unparser[n] = NoUnparser
                /\ (NonNull(n) # <<>> /\ FoldOf(n).err = NoErr)
                       => /\ node_unparser[n] = FoldOf(n).u
                          /\ node_unparser[n].variant
                                 \in {"Regular", "List", "TokenNode"}
                          /\ \A k \in 1..Len(NonNull(n)) :
                                 NonNull(n)[k].variant = node_unparser[n].variant
                /\ (NonNull(n) # <<>> /\ FoldOf(n).err # NoErr)
                       => /\ err = FoldOf(n).err
                          /\ node_unparser[n] = NoUnparser

\* finalize stored on one node type the fold of two occurrences, one Null
\* occurrence being left out, skipped a node type without occurrence, and
\* then failed on the assertion for a node type with Null occurrences only.
C25_Witness ==
    /\ last.op = "finalize"
    /\ err = AssertionError
    /\ \E n \in Nodes :
          /\ Len(NonNull(n)) >= 2
          /\ node_unparser[n] = FoldOf(n).u
          /\ node_unparser[n] # NoUnparser
    /\ \E i \in 1..Len(astnode_types) :
          /\ Reaches(i)
          /\ Len(unparsers[astnode_types[i]]) > 0
          /\ NonNull(astnode_types[i]) = <<>>
    /\ \E n \in Nodes : Len(unparsers[n]) = 0 /\ node_unparser[n] = NoUnparser


(***************************************************************************)
(* C26  The files LineMap._parse_file accepts.                             *)
(***************************************************************************)
\* The directive lines of the file, in order, each with its line number.
DirectiveLines ==
    SelectSeq([k \in 1..Len(file_lines) |->
                  [at |-> k, line |-> file_lines[k]]],
              LAMBDA l : l.line.directive)

\* The name of a directive line, "" when it is missing.
DirectiveName(l) == IF l.line.chunks = <<>> THEN "" ELSE l.line.chunks[1]

\* The directive expected at the k-th place: a property-start, closed by the
\* end that comes next.
ExpectedName(k) == IF k % 2 = 1 THEN "property-start" ELSE "end"

\* The places where the directive is not the one expected.
Misplaced ==
    {k \in 1..Len(DirectiveLines) :
        DirectiveName(DirectiveLines[k]) # ExpectedName(k)}

\* The file is a sequence of property-start directives, each closed by an end
\* directive before the next property-start and before the end of the file.
WellFormed == Misplaced = {} /\ Len(DirectiveLines) % 2 = 0

FirstMisplaced == CHOOSE k \in Misplaced : \A j \in Misplaced : k <= j

\* The ParseError a file that is not well formed is rejected with: that of
\* the first directive out of place, or of the end of the file.
ExpectedParseError ==
    IF Misplaced = {}
    THEN [line_no |-> Len(file_lines),
          message |-> "end of scope expected before end of file"]
    ELSE LET l == DirectiveLines[FirstMisplaced] IN
         [line_no |-> l.at,
          message |->
              CASE DirectiveName(l) = "" -> "directive name is missing"
                [] DirectiveName(l) = "property-start" ->
                       "property-start directive not allowed inside another property"
                [] DirectiveName(l) = "end" -> "no scope to end"
                [] OTHER -> "invalid directive: " \o DirectiveName(l)]

\* C26: _parse_file accepts a file iff its directives are a (possibly empty)
\* sequence of property-start directives, each closed by an end directive
\* before the next property-start and before the end of the file; any other
\* file raises ParseError, for a property-start inside an open property, an
\* end without open scope, an unknown or a missing directive name, or a
\* scope left open at the end of the file.  All along the scope stack holds
\* at most one scope, and on success every property recorded has a last line
\* that is set and not smaller than its first line.
C26_AcceptsClosedProperties ==
    pc \in {"parsing", "parsed", "parse_raised"} =>
        /\ Len(scope_stack) <= 1
        /\ pc = "parsed" =>
               /\ WellFormed
               /\ Len(properties) * 2 = Len(DirectiveLines)
               /\ \A i \in 1..Len(properties) :
                      /\ properties[i].last_line # 0
                      /\ properties[i].last_line >= properties[i].first_line
                      /\ properties[i].first_line = DirectiveLines[2 * i - 1].at
                      /\ properties[i].last_line = DirectiveLines[2 * i].at
        /\ pc = "parse_raised" =>
               /\ ~WellFormed
               /\ parse_error = ExpectedParseError
        /\ pc = "parsing" => parse_error = NoParseError

\* A file of two properties, each closed before the next, was accepted.
C26_Witness ==
    /\ pc = "parsed"
    /\ Len(file_lines) = MaxLines
    /\ Len(properties) = 2
    /\ properties[1].name = "P"
    /\ properties[1].last_line = 2
    /\ properties[2].first_line = 3
    /\ scope_stack = <<>>

====
